---- MODULE Spec2Model ----
(***************************************************************************)
(* Model of the date-expression engine of gcal-smart-add                   *)
(* (src/src/parser/InputParser.ts) and of the title input that feeds it    *)
(* (src/src/parser/types.ts, AttachmentManager).                           *)
(*                                                                         *)
(* A text is a sequence of one-character strings; offsets are 0-based as   *)
(* in the source (a span is [start, end)).  A Date is a record             *)
(* [y, m, d, h]: local calendar date (m is 1-based) and hour of day.       *)
(***************************************************************************)
EXTENDS Integers, Sequences, FiniteSets, TLC

(***************************************************************************)
(* Characters                                                              *)
(***************************************************************************)
DigitChars == <<"0","1","2","3","4","5","6","7","8","9">>

LowerChars == <<"a","b","c","d","e","f","g","h","i","j","k","l","m",
                "n","o","p","q","r","s","t","u","v","w","x","y","z">>

UpperChars == <<"A","B","C","D","E","F","G","H","I","J","K","L","M",
                "N","O","P","Q","R","S","T","U","V","W","X","Y","Z">>

Range(s) == {s[k] : k \in DOMAIN s}

DigitSet == Range(DigitChars)

WordSet == Range(LowerChars) \cup Range(UpperChars) \cup DigitSet \cup {"_"}

\* \d
IsDigit(c) == c \in DigitSet

\* \w
IsWordChar(c) == c \in WordSet

\* \s (the title input holds no line breaks; blank and tab are what it can hold)
IsSpace(c) == c \in {" ", "\t"}

DigitVal(c) == (CHOOSE k \in DOMAIN DigitChars : DigitChars[k] = c) - 1

\* String.prototype.toLowerCase on one character (the 'i' flag of the patterns)
LowerChar(c) ==
  IF c \in Range(UpperChars)
    THEN LowerChars[CHOOSE k \in DOMAIN UpperChars : UpperChars[k] = c]
    ELSE c

ToLower(text) == [k \in DOMAIN text |-> LowerChar(text[k])]

\* text.slice(from, to), 0-based, to exclusive
Slice(text, from, to) == SubSeq(text, from + 1, to)

\* the character at a 0-based offset; "" stands for "outside the text"
CharAt(text, i) == IF i >= 0 /\ i < Len(text) THEN text[i + 1] ELSE ""

RECURSIVE Flat(_)
Flat(ss) == IF ss = <<>> THEN <<>> ELSE Head(ss) \o Flat(Tail(ss))

\* Number(digits) / parseInt(digits) of a run of decimal digits
RECURSIVE ToNumber(_)
ToNumber(ds) ==
  IF ds = <<>> THEN 0
  ELSE 10 * ToNumber(SubSeq(ds, 1, Len(ds) - 1)) + DigitVal(ds[Len(ds)])

\* String(n) of a natural number, as a template literal renders it
RECURSIVE ToDigits(_)
ToDigits(n) ==
  IF n < 10 THEN <<DigitChars[n + 1]>>
  ELSE ToDigits(n \div 10) \o <<DigitChars[(n % 10) + 1]>>

\* String.prototype.trim
RECURSIVE TrimLeft(_)
TrimLeft(s) ==
  IF s # <<>> /\ IsSpace(Head(s)) THEN TrimLeft(Tail(s)) ELSE s

RECURSIVE TrimRight(_)
TrimRight(s) ==
  IF s # <<>> /\ IsSpace(s[Len(s)]) THEN TrimRight(SubSeq(s, 1, Len(s) - 1)) ELSE s

Trim(s) == TrimRight(TrimLeft(s))

\* Array.prototype.join(' ') on an array of strings
RECURSIVE JoinSpace(_)
JoinSpace(parts) ==
  IF parts = <<>> THEN <<>>
  ELSE IF Len(parts) = 1 THEN parts[1]
  ELSE parts[1] \o <<" ">> \o JoinSpace(Tail(parts))

\* needle occurs in hay, as a contiguous substring
Includes(hay, needle) ==
  \E i \in 0..(Len(hay) - Len(needle)) : Slice(hay, i, i + Len(needle)) = needle

(***************************************************************************)
(* Dictionaries                                                            *)
(***************************************************************************)
MONTH_DICTIONARY ==
  << [key |-> <<"j","a","n","u","a","r","y">>, val |-> 1],
     [key |-> <<"j","a","n">>, val |-> 1],
     [key |-> <<"f","e","b","r","u","a","r","y">>, val |-> 2],
     [key |-> <<"f","e","b">>, val |-> 2],
     [key |-> <<"m","a","r","c","h">>, val |-> 3],
     [key |-> <<"m","a","r">>, val |-> 3],
     [key |-> <<"a","p","r","i","l">>, val |-> 4],
     [key |-> <<"a","p","r">>, val |-> 4],
     [key |-> <<"m","a","y">>, val |-> 5],
     [key |-> <<"j","u","n","e">>, val |-> 6],
     [key |-> <<"j","u","n">>, val |-> 6],
     [key |-> <<"j","u","l","y">>, val |-> 7],
     [key |-> <<"j","u","l">>, val |-> 7],
     [key |-> <<"a","u","g","u","s","t">>, val |-> 8],
     [key |-> <<"a","u","g">>, val |-> 8],
     [key |-> <<"s","e","p","t","e","m","b","e","r">>, val |-> 9],
     [key |-> <<"s","e","p">>, val |-> 9],
     [key |-> <<"s","e","p","t">>, val |-> 9],
     [key |-> <<"o","c","t","o","b","e","r">>, val |-> 10],
     [key |-> <<"o","c","t">>, val |-> 10],
     [key |-> <<"n","o","v","e","m","b","e","r">>, val |-> 11],
     [key |-> <<"n","o","v">>, val |-> 11],
     [key |-> <<"d","e","c","e","m","b","e","r">>, val |-> 12],
     [key |-> <<"d","e","c">>, val |-> 12] >>

ORDINAL_WORD_DICTIONARY ==
  << [key |-> <<"f","i","r","s","t">>, val |-> 1],
     [key |-> <<"s","e","c","o","n","d">>, val |-> 2],
     [key |-> <<"t","h","i","r","d">>, val |-> 3],
     [key |-> <<"f","o","u","r","t","h">>, val |-> 4],
     [key |-> <<"f","i","f","t","h">>, val |-> 5],
     [key |-> <<"s","i","x","t","h">>, val |-> 6],
     [key |-> <<"s","e","v","e","n","t","h">>, val |-> 7],
     [key |-> <<"e","i","g","h","t","h">>, val |-> 8],
     [key |-> <<"n","i","n","t","h">>, val |-> 9],
     [key |-> <<"t","e","n","t","h">>, val |-> 10],
     [key |-> <<"e","l","e","v","e","n","t","h">>, val |-> 11],
     [key |-> <<"t","w","e","l","f","t","h">>, val |-> 12],
     [key |-> <<"t","h","i","r","t","e","e","n","t","h">>, val |-> 13],
     [key |-> <<"f","o","u","r","t","e","e","n","t","h">>, val |-> 14],
     [key |-> <<"f","i","f","t","e","e","n","t","h">>, val |-> 15],
     [key |-> <<"s","i","x","t","e","e","n","t","h">>, val |-> 16],
     [key |-> <<"s","e","v","e","n","t","e","e","n","t","h">>, val |-> 17],
     [key |-> <<"e","i","g","h","t","e","e","n","t","h">>, val |-> 18],
     [key |-> <<"n","i","n","e","t","e","e","n","t","h">>, val |-> 19],
     [key |-> <<"t","w","e","n","t","i","e","t","h">>, val |-> 20],
     [key |-> <<"t","w","e","n","t","y","-","f","i","r","s","t">>, val |-> 21],
     [key |-> <<"t","w","e","n","t","y","-","s","e","c","o","n","d">>, val |-> 22],
     [key |-> <<"t","w","e","n","t","y","-","t","h","i","r","d">>, val |-> 23],
     [key |-> <<"t","w","e","n","t","y","-","f","o","u","r","t","h">>, val |-> 24],
     [key |-> <<"t","w","e","n","t","y","-","f","i","f","t","h">>, val |-> 25],
     [key |-> <<"t","w","e","n","t","y","-","s","i","x","t","h">>, val |-> 26],
     [key |-> <<"t","w","e","n","t","y","-","s","e","v","e","n","t","h">>, val |-> 27],
     [key |-> <<"t","w","e","n","t","y","-","e","i","g","h","t","h">>, val |-> 28],
     [key |-> <<"t","w","e","n","t","y","-","n","i","n","t","h">>, val |-> 29],
     [key |-> <<"t","h","i","r","t","i","e","t","h">>, val |-> 30],
     [key |-> <<"t","h","i","r","t","y","-","f","i","r","s","t">>, val |-> 31] >>

\* the dictionary lookup dict[word]; 0 stands for undefined
Lookup(dict, word) ==
  IF \E k \in DOMAIN dict : dict[k].key = word
    THEN dict[CHOOSE k \in DOMAIN dict : dict[k].key = word].val
    ELSE 0

\* Object.keys(dict).sort((a, b) => b.length - a.length): a stable sort, so the
\* keys of one length keep their order in the dictionary
RECURSIVE InsertByLength(_, _)
InsertByLength(sorted, word) ==
  IF sorted = <<>> THEN <<word>>
  ELSE IF Len(sorted[Len(sorted)]) >= Len(word) THEN Append(sorted, word)
  ELSE Append(InsertByLength(SubSeq(sorted, 1, Len(sorted) - 1), word),
              sorted[Len(sorted)])

RECURSIVE SortKeysByLength(_)
SortKeysByLength(keys) ==
  IF keys = <<>> THEN <<>>
  ELSE InsertByLength(SortKeysByLength(SubSeq(keys, 1, Len(keys) - 1)),
                      keys[Len(keys)])

matchAnyPattern(dict) == SortKeysByLength([k \in DOMAIN dict |-> dict[k].key])

MONTH_PATTERN == matchAnyPattern(MONTH_DICTIONARY)

ORDINAL_WORD_PATTERN == matchAnyPattern(ORDINAL_WORD_DICTIONARY)

(***************************************************************************)
(* Dates: the JavaScript Date in local time, to the hour                   *)
(***************************************************************************)
Null == [null |-> TRUE]

\* days since 1970-01-01 of a calendar date (proleptic Gregorian)
DaysFromYearOfEra(era, yoe, doy) ==
  era * 146097 + (yoe * 365 + yoe \div 4 - yoe \div 100 + doy) - 719468

DaysFromMarchYear(yy, mp, d) ==
  DaysFromYearOfEra(yy \div 400, yy - (yy \div 400) * 400,
                    (153 * mp + 2) \div 5 + d - 1)

DaysFromCivil(y, m, d) ==
  DaysFromMarchYear(IF m <= 2 THEN y - 1 ELSE y, IF m > 2 THEN m - 3 ELSE m + 9, d)

\* the calendar date of a day number, step by step: era (400 years), day of
\* era, year of era, day of year, month counted from March
CivilFromMonth(era, yoe, doy, mp) ==
  [y |-> yoe + era * 400 + (IF mp < 10 THEN 0 ELSE 1),
   m |-> IF mp < 10 THEN mp + 3 ELSE mp - 9,
   d |-> doy - (153 * mp + 2) \div 5 + 1]

CivilFromDayOfYear(era, yoe, doy) ==
  CivilFromMonth(era, yoe, doy, (5 * doy + 2) \div 153)

CivilFromYearOfEra(era, doe, yoe) ==
  CivilFromDayOfYear(era, yoe, doe - (365 * yoe + yoe \div 4 - yoe \div 100))

CivilFromDayOfEra(era, doe) ==
  CivilFromYearOfEra(era, doe,
    (doe - doe \div 1460 + doe \div 36524 - doe \div 146096) \div 365)

CivilFromEra(z, era) == CivilFromDayOfEra(era, z - era * 146097)

CivilFromDays(days) == CivilFromEra(days + 719468, (days + 719468) \div 146097)

DayNumber(date) == DaysFromCivil(date.y, date.m, date.d)

\* new Date(year, month - 1, day): midnight; a day past the end of the month
\* carries into the following month, and a year 0..99 means 1900 + year
AtHour(c, hour) == [y |-> c.y, m |-> c.m, d |-> c.d, h |-> hour]

NewDate(year, month, day) ==
  AtHour(CivilFromDays(DaysFromCivil(IF year >= 0 /\ year <= 99
                                       THEN 1900 + year ELSE year,
                                     month, 1) + day - 1), 0)

\* Date.prototype.getTime, in hours
GetTime(date) == DayNumber(date) * 24 + date.h

\* Date.prototype.getDay: 0 is Sunday (1970-01-01 was a Thursday)
GetDay(date) == (DayNumber(date) + 4) % 7

Abs(n) == IF n < 0 THEN -n ELSE n

addDays(date, days) == AtHour(CivilFromDays(DayNumber(date) + days), date.h)

\* no magnitude check at all
isValidDateUnchecked(day, month) == TRUE

isValidDate(day, month) == day >= 1 /\ day <= 31 /\ month >= 1 /\ month <= 12

\* the result object of normalizeMonthDay once day and month are settled
ValidMonthDay(day, month) ==
  IF ~isValidDate(day, month) THEN Null ELSE [day |-> day, month |-> month]

\* normalizeMonthDay after the first two assignments
SwapMonthDay(day, month) ==
  IF month > 12
    THEN IF day >= 1 /\ day <= 12 /\ month <= 31
           THEN ValidMonthDay(month, day)
           ELSE Null
    ELSE ValidMonthDay(day, month)

normalizeMonthDay(first, second, firstIsMonth) ==
  SwapMonthDay(IF firstIsMonth THEN second ELSE first,
               IF firstIsMonth THEN first ELSE second)

\* a reduce that lets the previous century win a tie
ClosestYearTieBack(first, second, currentYear) ==
  IF Abs(second - currentYear) <= Abs(first - currentYear) THEN second ELSE first

\* candidates.reduce: the second candidate wins only if strictly closer
ClosestYear(first, second, currentYear) ==
  IF Abs(second - currentYear) < Abs(first - currentYear) THEN second ELSE first

CenturyCandidates(yearNumber, currentCentury, currentYear) ==
  ClosestYear(currentCentury + yearNumber, currentCentury - 100 + yearNumber,
              currentYear)

findMostLikelyADYear(yearNumber, ref) ==
  IF yearNumber >= 100 THEN yearNumber
  ELSE CenturyCandidates(yearNumber, (ref.y \div 100) * 100, ref.y)

\* a wrap that skips today: the same weekday is a week away
DaysUntilAfterToday(diff) == IF diff <= 0 THEN diff + 7 ELSE diff

DaysUntil(diff) == IF diff < 0 THEN diff + 7 ELSE diff

nextWeekday(targetDay, ref) == addDays(ref, DaysUntil(targetDay - GetDay(ref)))

\* a comparison that lets the next year win a tie with the current year
PickClosestForward(candidate, nextYear, lastYear, diffCurrent, diffNext, diffLast) ==
  IF diffNext <= diffCurrent /\ diffNext < diffLast THEN nextYear
  ELSE IF diffLast < diffCurrent THEN lastYear
  ELSE candidate

\* the three returns of findYearClosestToRef
PickClosest(candidate, nextYear, lastYear, diffCurrent, diffNext, diffLast) ==
  IF diffNext < diffCurrent /\ diffNext < diffLast THEN nextYear
  ELSE IF diffLast < diffCurrent THEN lastYear
  ELSE candidate

ClosestOfThree(candidate, nextYear, lastYear, time) ==
  PickClosest(candidate, nextYear, lastYear,
              Abs(GetTime(candidate) - time),
              Abs(GetTime(nextYear) - time),
              Abs(GetTime(lastYear) - time))

findYearClosestToRef(day, month, ref) ==
  ClosestOfThree(NewDate(ref.y, month, day), NewDate(ref.y + 1, month, day),
                 NewDate(ref.y - 1, month, day), GetTime(ref))

(***************************************************************************)
(* Regular expressions.  A pattern element, tried at an offset, yields the *)
(* offsets where it can end, in the order a backtracking matcher tries     *)
(* them; a pattern's match at an offset is the first complete path.        *)
(* Patterns are matched on the lower-cased text (the 'i' flag).            *)
(***************************************************************************)
FlatMap(s, F(_)) == Flat([k \in DOMAIN s |-> F(s[k])])

Keep(cond, m) == IF cond THEN <<m>> ELSE <<>>

HasLit(t, i, w) ==
  /\ i + Len(w) <= Len(t)
  /\ \A k \in 1..Len(w) : t[i + k] = w[k]

\* (w1|w2|...) : the alternatives in order
AltEnds(t, i, words) ==
  Flat([k \in DOMAIN words |->
          IF HasLit(t, i, words[k]) THEN <<i + Len(words[k])>> ELSE <<>>])

\* \b
Boundary(t, i) == IsWordChar(CharAt(t, i - 1)) # IsWordChar(CharAt(t, i))

IsCommaOrSpace(c) == c = "," \/ IsSpace(c)

\* the length of the longest run of characters satisfying P from offset i
RunLength(t, i, P(_)) ==
  CHOOSE n \in 0..(IF i <= Len(t) THEN Len(t) - i ELSE 0) :
    /\ \A k \in 0..(n - 1) : P(CharAt(t, i + k))
    /\ ~P(CharAt(t, i + n))

\* a greedy quantifier {lo,hi} over a run: longest first
GreedyEnds(i, lo, hi, run) ==
  LET mx == IF run < hi THEN run ELSE hi
  IN  IF mx < lo THEN <<>> ELSE [k \in 1..(mx - lo + 1) |-> i + mx - k + 1]

\* \s+
SpacesPlus(t, i) == GreedyEnds(i, 1, Len(t), RunLength(t, i, IsSpace))

\* [,\s]+
CommaSpacesPlus(t, i) == GreedyEnds(i, 1, Len(t), RunLength(t, i, IsCommaOrSpace))

\* \d{lo,hi}
DigitsEnds(t, i, lo, hi) == GreedyEnds(i, lo, hi, RunLength(t, i, IsDigit))

ORDINAL_SUFFIXES == << <<"s","t">>, <<"n","d">>, <<"r","d">>, <<"t","h">> >>

\* ORDINAL_NUMBER_PATTERN: (?:<ordinal word>|\d{1,2}(?:st|nd|rd|th)?)
OrdinalNumberEnds(t, i) ==
  AltEnds(t, i, ORDINAL_WORD_PATTERN)
    \o FlatMap(DigitsEnds(t, i, 1, 2),
               LAMBDA e : AltEnds(t, e, ORDINAL_SUFFIXES) \o <<e>>)

\* (?!\s*(?:am|pm|:\d))
\* the two month-day patterns without their negative lookahead
NoClockSuffixUnchecked(t, e) == TRUE

NoClockSuffix(t, e) ==
  ~ \E k \in 0..RunLength(t, e, IsSpace) :
      \/ HasLit(t, e + k, <<"a","m">>)
      \/ HasLit(t, e + k, <<"p","m">>)
      \/ (CharAt(t, e + k) = ":" /\ IsDigit(CharAt(t, e + k + 1)))

\* \b(w1|w2|...)\b
WordPattern(t, i, words) ==
  IF ~Boundary(t, i) THEN <<>>
  ELSE FlatMap(AltEnds(t, i, words),
               LAMBDA e : Keep(Boundary(t, e), [end |-> e]))

\* \b(\d{4})-(\d{1,2})-(\d{1,2})\b
IsoPattern(t, i) ==
  IF ~Boundary(t, i) THEN <<>>
  ELSE FlatMap(DigitsEnds(t, i, 4, 4), LAMBDA e1 :
         IF CharAt(t, e1) # "-" THEN <<>>
         ELSE FlatMap(DigitsEnds(t, e1 + 1, 1, 2), LAMBDA e2 :
           IF CharAt(t, e2) # "-" THEN <<>>
           ELSE FlatMap(DigitsEnds(t, e2 + 1, 1, 2), LAMBDA e3 :
             Keep(Boundary(t, e3),
                  [end |-> e3, g1 |-> <<i, e1>>, g2 |-> <<e1 + 1, e2>>,
                   g3 |-> <<e2 + 1, e3>>]))))

\* \b(\d{1,2})\/(\d{1,2})\/(\d{2,4})\b
SlashYearPattern(t, i) ==
  IF ~Boundary(t, i) THEN <<>>
  ELSE FlatMap(DigitsEnds(t, i, 1, 2), LAMBDA e1 :
         IF CharAt(t, e1) # "/" THEN <<>>
         ELSE FlatMap(DigitsEnds(t, e1 + 1, 1, 2), LAMBDA e2 :
           IF CharAt(t, e2) # "/" THEN <<>>
           ELSE FlatMap(DigitsEnds(t, e2 + 1, 2, 4), LAMBDA e3 :
             Keep(Boundary(t, e3),
                  [end |-> e3, g1 |-> <<i, e1>>, g2 |-> <<e1 + 1, e2>>,
                   g3 |-> <<e2 + 1, e3>>]))))

\* \b(\d{1,2})\/(\d{1,2})\b
SlashPattern(t, i) ==
  IF ~Boundary(t, i) THEN <<>>
  ELSE FlatMap(DigitsEnds(t, i, 1, 2), LAMBDA e1 :
         IF CharAt(t, e1) # "/" THEN <<>>
         ELSE FlatMap(DigitsEnds(t, e1 + 1, 1, 2), LAMBDA e2 :
           Keep(Boundary(t, e2),
                [end |-> e2, g1 |-> <<i, e1>>, g2 |-> <<e1 + 1, e2>>])))

\* \b(MONTH)\s+(ORDINAL)(?!\s*(?:am|pm|:\d))[,\s]+(\d{2,4})\b
MonthDayYearPattern(t, i) ==
  IF ~Boundary(t, i) THEN <<>>
  ELSE FlatMap(AltEnds(t, i, MONTH_PATTERN), LAMBDA e1 :
         FlatMap(SpacesPlus(t, e1), LAMBDA e2 :
           FlatMap(OrdinalNumberEnds(t, e2), LAMBDA e3 :
             IF ~NoClockSuffix(t, e3) THEN <<>>
             ELSE FlatMap(CommaSpacesPlus(t, e3), LAMBDA e4 :
               FlatMap(DigitsEnds(t, e4, 2, 4), LAMBDA e5 :
                 Keep(Boundary(t, e5),
                      [end |-> e5, g1 |-> <<i, e1>>, g2 |-> <<e2, e3>>,
                       g3 |-> <<e4, e5>>]))))))

\* \b(ORDINAL)\s+(MONTH)[,\s]+(\d{2,4})\b
DayMonthYearPattern(t, i) ==
  IF ~Boundary(t, i) THEN <<>>
  ELSE FlatMap(OrdinalNumberEnds(t, i), LAMBDA e1 :
         FlatMap(SpacesPlus(t, e1), LAMBDA e2 :
           FlatMap(AltEnds(t, e2, MONTH_PATTERN), LAMBDA e3 :
             FlatMap(CommaSpacesPlus(t, e3), LAMBDA e4 :
               FlatMap(DigitsEnds(t, e4, 2, 4), LAMBDA e5 :
                 Keep(Boundary(t, e5),
                      [end |-> e5, g1 |-> <<i, e1>>, g2 |-> <<e2, e3>>,
                       g3 |-> <<e4, e5>>]))))))

\* \b(MONTH)\s+(ORDINAL)(?!\s*(?:am|pm|:\d))\b
MonthDayPattern(t, i) ==
  IF ~Boundary(t, i) THEN <<>>
  ELSE FlatMap(AltEnds(t, i, MONTH_PATTERN), LAMBDA e1 :
         FlatMap(SpacesPlus(t, e1), LAMBDA e2 :
           FlatMap(OrdinalNumberEnds(t, e2), LAMBDA e3 :
             Keep(NoClockSuffix(t, e3) /\ Boundary(t, e3),
                  [end |-> e3, g1 |-> <<i, e1>>, g2 |-> <<e2, e3>>]))))

\* \b(ORDINAL)\s+(MONTH)\b
DayMonthPattern(t, i) ==
  IF ~Boundary(t, i) THEN <<>>
  ELSE FlatMap(OrdinalNumberEnds(t, i), LAMBDA e1 :
         FlatMap(SpacesPlus(t, e1), LAMBDA e2 :
           FlatMap(AltEnds(t, e2, MONTH_PATTERN), LAMBDA e3 :
             Keep(Boundary(t, e3),
                  [end |-> e3, g1 |-> <<i, e1>>, g2 |-> <<e2, e3>>]))))

(***************************************************************************)
(* The pattern registry and its resolvers                                  *)
(***************************************************************************)
DATE_PATTERNS ==
  << [kind |-> "relative", offset |-> 0,
      words |-> << <<"t","o","d","a","y">>, <<"t","o","d">> >>],
     [kind |-> "relative", offset |-> 1,
      words |-> << <<"t","o","m","o","r","r","o","w">>, <<"t","o","m">> >>],
     [kind |-> "relative", offset |-> -1,
      words |-> << <<"y","e","s","t","e","r","d","a","y">> >>],
     [kind |-> "weekday", day |-> 0,
      words |-> << <<"s","u","n","d","a","y">>, <<"s","u","n">> >>],
     [kind |-> "weekday", day |-> 1,
      words |-> << <<"m","o","n","d","a","y">>, <<"m","o","n">> >>],
     [kind |-> "weekday", day |-> 2,
      words |-> << <<"t","u","e","s","d","a","y">>, <<"t","u","e","s">>,
                   <<"t","u","e">> >>],
     [kind |-> "weekday", day |-> 3,
      words |-> << <<"w","e","d","n","e","s","d","a","y">>, <<"w","e","d">> >>],
     [kind |-> "weekday", day |-> 4,
      words |-> << <<"t","h","u","r","s","d","a","y">>, <<"t","h","u","r","s">>,
                   <<"t","h","u","r">>, <<"t","h","u">> >>],
     [kind |-> "weekday", day |-> 5,
      words |-> << <<"f","r","i","d","a","y">>, <<"f","r","i">> >>],
     [kind |-> "weekday", day |-> 6,
      words |-> << <<"s","a","t","u","r","d","a","y">>, <<"s","a","t">> >>],
     [kind |-> "iso"],
     [kind |-> "slashYear"],
     [kind |-> "slash"],
     [kind |-> "monthDayYear"],
     [kind |-> "dayMonthYear"],
     [kind |-> "monthDay"],
     [kind |-> "dayMonth"] >>

\* the paths of a pattern at offset i of the lower-cased text t
PatternPaths(pat, t, i) ==
  CASE pat.kind \in {"relative", "weekday"} -> WordPattern(t, i, pat.words)
    [] pat.kind = "iso"          -> IsoPattern(t, i)
    [] pat.kind = "slashYear"    -> SlashYearPattern(t, i)
    [] pat.kind = "slash"        -> SlashPattern(t, i)
    [] pat.kind = "monthDayYear" -> MonthDayYearPattern(t, i)
    [] pat.kind = "dayMonthYear" -> DayMonthYearPattern(t, i)
    [] pat.kind = "monthDay"     -> MonthDayPattern(t, i)
    [] pat.kind = "dayMonth"     -> DayMonthPattern(t, i)

\* the text of a capture group
Group(t, g) == Slice(t, g[1], g[2])

StripOrdinalSuffix(w) ==
  IF Len(w) >= 2 /\ \E k \in DOMAIN ORDINAL_SUFFIXES :
                      SubSeq(w, Len(w) - 1, Len(w)) = ORDINAL_SUFFIXES[k]
    THEN SubSeq(w, 1, Len(w) - 2)
    ELSE w

OrdinalValue(w, word) ==
  IF word # 0 THEN word ELSE ToNumber(StripOrdinalSuffix(w))

parseOrdinal(w) == OrdinalValue(w, Lookup(ORDINAL_WORD_DICTIONARY, w))

\* `if (!isValidDate(day, month)) return null; return new Date(year, month - 1, day)`
DateOfYear(year, month, day) ==
  IF ~isValidDate(day, month) THEN Null ELSE NewDate(year, month, day)

\* `if (!isValidDate(day, month)) return null; return findYearClosestToRef(...)`
DateNearRef(day, month, ref) ==
  IF ~isValidDate(day, month) THEN Null ELSE findYearClosestToRef(day, month, ref)

\* the slash resolver with a year, after normalizeMonthDay
SlashYearDate(result, yearNumber, ref) ==
  IF result = Null THEN Null
  ELSE NewDate(findMostLikelyADYear(yearNumber, ref), result.month, result.day)

\* the short slash resolver, after normalizeMonthDay
SlashDate(result, ref) ==
  IF result = Null THEN Null
  ELSE findYearClosestToRef(result.day, result.month, ref)

\* the resolver of a pattern on a match m: a Date, or Null to reject
Resolve(pat, m, t, ref) ==
  CASE pat.kind = "relative" -> addDays(ref, pat.offset)
    [] pat.kind = "weekday"  -> nextWeekday(pat.day, ref)
    [] pat.kind = "iso" ->
         DateOfYear(ToNumber(Group(t, m.g1)), ToNumber(Group(t, m.g2)),
                    ToNumber(Group(t, m.g3)))
    [] pat.kind = "slashYear" ->
         SlashYearDate(normalizeMonthDay(ToNumber(Group(t, m.g1)),
                                         ToNumber(Group(t, m.g2)), TRUE),
                       ToNumber(Group(t, m.g3)), ref)
    [] pat.kind = "slash" ->
         SlashDate(normalizeMonthDay(ToNumber(Group(t, m.g1)),
                                     ToNumber(Group(t, m.g2)), FALSE), ref)
    [] pat.kind = "monthDayYear" ->
         DateOfYear(findMostLikelyADYear(ToNumber(Group(t, m.g3)), ref),
                    Lookup(MONTH_DICTIONARY, Group(t, m.g1)),
                    parseOrdinal(Group(t, m.g2)))
    [] pat.kind = "dayMonthYear" ->
         DateOfYear(findMostLikelyADYear(ToNumber(Group(t, m.g3)), ref),
                    Lookup(MONTH_DICTIONARY, Group(t, m.g2)),
                    parseOrdinal(Group(t, m.g1)))
    [] pat.kind = "monthDay" ->
         DateNearRef(parseOrdinal(Group(t, m.g2)),
                     Lookup(MONTH_DICTIONARY, Group(t, m.g1)), ref)
    [] pat.kind = "dayMonth" ->
         DateNearRef(parseOrdinal(Group(t, m.g1)),
                     Lookup(MONTH_DICTIONARY, Group(t, m.g2)), ref)

(***************************************************************************)
(* InputParser                                                             *)
(***************************************************************************)
\* the offsets where a word starts, ascending: every pattern begins with \b
\* before a letter or a digit, so a match can start nowhere else
WordStarts(t) ==
  LET RECURSIVE From(_)
      From(i) ==
        IF i >= Len(t) THEN <<>>
        ELSE IF Boundary(t, i) /\ IsWordChar(CharAt(t, i)) THEN <<i>> \o From(i + 1)
        ELSE From(i + 1)
  IN  From(0)

\* pattern.exec(text) from lastIndex: the leftmost offset with a match and the
\* first path there, or Null; starts are the word starts not yet tried
RECURSIVE Exec(_, _, _, _)
\* the attempt at one offset, given the paths of the pattern there
ExecAt(pat, t, starts, lastIndex, paths) ==
  IF paths # <<>> THEN [index |-> Head(starts), m |-> Head(paths)]
  ELSE Exec(pat, t, Tail(starts), lastIndex)

Exec(pat, t, starts, lastIndex) ==
  IF starts = <<>> THEN Null
  ELSE IF Head(starts) < lastIndex THEN Exec(pat, t, Tail(starts), lastIndex)
  ELSE ExecAt(pat, t, starts, lastIndex, PatternPaths(pat, t, Head(starts)))

\* the while loop of findAllMatches for one pattern: a global scan from
\* lastIndex, each match resuming where the previous one ended
RECURSIVE ScanPattern(_, _, _, _, _, _)
\* `if (date) matches.push({start, end, raw: match[0], date})`
PushMatch(text, found, date) ==
  IF date = Null THEN <<>>
  ELSE <<[start |-> found.index, end |-> found.m.end,
          raw |-> Slice(text, found.index, found.m.end), date |-> date]>>

\* one turn of the while loop, given the result of pattern.exec
ScanFound(pat, text, t, starts, ref, found) ==
  IF found = Null THEN <<>>
  ELSE PushMatch(text, found, Resolve(pat, found.m, t, ref))
       \o ScanPattern(pat, text, t, starts, ref, found.m.end)

ScanPattern(pat, text, t, starts, ref, lastIndex) ==
  ScanFound(pat, text, t, starts, ref, Exec(pat, t, starts, lastIndex))

\* the for loop of findAllMatches over DATE_PATTERNS, on the lower-cased text
ScanAll(text, t, ref) ==
  Flat([p \in DOMAIN DATE_PATTERNS |->
          ScanPattern(DATE_PATTERNS[p], text, t, WordStarts(t), ref, 0)])

findAllMatches(text, ref) == ScanAll(text, ToLower(text), ref)

\* a comparator that prefers the shorter of two matches with one start
CompareMatchesShortestFirst(a, b) ==
  IF a.start # b.start THEN a.start - b.start
  ELSE (a.end - a.start) - (b.end - b.start)

\* the comparator of matches.sort: start ascending, then length descending
CompareMatches(a, b) ==
  IF a.start # b.start THEN a.start - b.start
  ELSE (b.end - b.start) - (a.end - a.start)

\* Array.prototype.sort is stable
RECURSIVE InsertMatch(_, _)
InsertMatch(sorted, x) ==
  IF sorted = <<>> THEN <<x>>
  ELSE IF CompareMatches(sorted[Len(sorted)], x) <= 0 THEN Append(sorted, x)
  ELSE Append(InsertMatch(SubSeq(sorted, 1, Len(sorted) - 1), x),
              sorted[Len(sorted)])

RECURSIVE SortMatches(_)
SortMatches(ms) ==
  IF ms = <<>> THEN <<>>
  ELSE InsertMatch(SortMatches(SubSeq(ms, 1, Len(ms) - 1)), ms[Len(ms)])

\* the for loop of filterOverlappingMatches over the sorted matches
RECURSIVE KeepDisjoint(_, _)
KeepDisjoint(sorted, lastEnd) ==
  IF sorted = <<>> THEN <<>>
  ELSE IF Head(sorted).start < lastEnd THEN KeepDisjoint(Tail(sorted), lastEnd)
  ELSE <<Head(sorted)>> \o KeepDisjoint(Tail(sorted), Head(sorted).end)

\* an overlap resolver that walks the candidates in registry order, unsorted
filterUnsortedMatches(matches) ==
  IF Len(matches) <= 1 THEN matches
  ELSE KeepDisjoint(matches, -1)

filterOverlappingMatches(matches) ==
  IF Len(matches) <= 1 THEN matches
  ELSE KeepDisjoint(SortMatches(matches), -1)

\* a tokenizer that forgets the text after the active match
buildTokensNoTail(text, activeMatch) ==
  IF activeMatch = Null
    THEN IF text # <<>>
           THEN <<[type |-> "text", raw |-> text, start |-> 0, end |-> Len(text)]>>
           ELSE <<>>
    ELSE (IF activeMatch.start > 0
            THEN <<[type |-> "text", raw |-> Slice(text, 0, activeMatch.start),
                    start |-> 0, end |-> activeMatch.start]>>
            ELSE <<>>)
         \o <<[type |-> "date", raw |-> activeMatch.raw,
               start |-> activeMatch.start, end |-> activeMatch.end]>>

\* a tokenizer that pushes the leading text token even when it is empty
buildTokensEmptyLead(text, activeMatch) ==
  IF activeMatch = Null
    THEN IF text # <<>>
           THEN <<[type |-> "text", raw |-> text, start |-> 0, end |-> Len(text)]>>
           ELSE <<>>
    ELSE <<[type |-> "text", raw |-> Slice(text, 0, activeMatch.start),
            start |-> 0, end |-> activeMatch.start]>>
         \o <<[type |-> "date", raw |-> activeMatch.raw,
               start |-> activeMatch.start, end |-> activeMatch.end]>>
         \o (IF activeMatch.end < Len(text)
               THEN <<[type |-> "text", raw |-> Slice(text, activeMatch.end, Len(text)),
                       start |-> activeMatch.end, end |-> Len(text)]>>
               ELSE <<>>)

buildTokens(text, activeMatch) ==
  IF activeMatch = Null
    THEN IF text # <<>>
           THEN <<[type |-> "text", raw |-> text, start |-> 0, end |-> Len(text)]>>
           ELSE <<>>
    ELSE (IF activeMatch.start > 0
            THEN <<[type |-> "text", raw |-> Slice(text, 0, activeMatch.start),
                    start |-> 0, end |-> activeMatch.start]>>
            ELSE <<>>)
         \o <<[type |-> "date", raw |-> activeMatch.raw,
               start |-> activeMatch.start, end |-> activeMatch.end]>>
         \o (IF activeMatch.end < Len(text)
               THEN <<[type |-> "text", raw |-> Slice(text, activeMatch.end, Len(text)),
                       start |-> activeMatch.end, end |-> Len(text)]>>
               ELSE <<>>)

\* a map that forgets to trim
KeepRaw(texts) == [k \in DOMAIN texts |-> texts[k].raw]

\* .map(token => token.raw.trim()) of buildCleanTitle
TrimAll(texts) == [k \in DOMAIN texts |-> Trim(texts[k].raw)]

\* a title built from every token, the date token included
buildTitleOfAllTokens(tokens) ==
  JoinSpace(SelectSeq([k \in DOMAIN tokens |-> Trim(tokens[k].raw)],
                      LAMBDA s : Len(s) > 0))

\* a title built with the filter inverted: only the date token is kept
buildTitleOfDateTokens(tokens) ==
  JoinSpace(SelectSeq(TrimAll(SelectSeq(tokens, LAMBDA tk : tk.type = "date")),
                      LAMBDA s : Len(s) > 0))

buildCleanTitle(tokens) ==
  JoinSpace(SelectSeq(TrimAll(SelectSeq(tokens, LAMBDA tk : tk.type = "text")),
                      LAMBDA s : Len(s) > 0))

\* a selection that takes the first surviving match
selectFirstMatch(filtered) ==
  IF Len(filtered) > 0 THEN filtered[1] ELSE Null

\* "use only the last match for event data"
selectLastMatch(filtered) ==
  IF Len(filtered) > 0 THEN filtered[Len(filtered)] ELSE Null

\* the ParseResult, given the active match and its tokens
ParseResult(matches, filtered, lastMatch, tokens) ==
  [matches    |-> matches,
   filtered   |-> filtered,
   tokens     |-> tokens,
   event      |-> IF lastMatch # Null THEN [date |-> lastMatch.date] ELSE <<>>,
   cleanTitle |-> buildCleanTitle(tokens)]

ParseLast(text, matches, filtered, lastMatch) ==
  ParseResult(matches, filtered, lastMatch, buildTokens(text, lastMatch))

ParseFiltered(text, matches, filtered) ==
  ParseLast(text, matches, filtered, selectLastMatch(filtered))

ParseMatches(text, matches) ==
  ParseFiltered(text, matches, filterOverlappingMatches(matches))

\* InputParser.parse, with the two intermediate lists it computes
parse(text, ref) == ParseMatches(text, findAllMatches(text, ref))

\* the lastIndex of every shared pattern when no scan is under way
ScanEnded == [p \in DOMAIN DATE_PATTERNS |-> 0]

\* `pattern.lastIndex = 0` before the while loop
resetLastIndex(cursor) == 0

\* a while loop that gives up at a rejected candidate (`break` for `continue`)
\* and so leaves the pattern's lastIndex behind the candidate
AfterExecBreak(pushed, end, rest) ==
  IF pushed = <<>>
    THEN [matches |-> <<>>, lastIndex |-> end]
    ELSE [matches |-> pushed \o rest.matches, lastIndex |-> rest.lastIndex]

\* one turn of the while loop after exec found a candidate: it is pushed
\* unless its date is null, and the loop goes on from its end
AfterExec(pushed, end, rest) ==
  [matches |-> pushed \o rest.matches, lastIndex |-> rest.lastIndex]

\* the while loop of findAllMatches for one pattern, with the lastIndex the
\* pattern object holds when the loop is left: exec sets it to the end of a
\* match, and to 0 when it returns null
RECURSIVE ScanCursor(_, _, _, _, _, _)
ScanCursorFound(pat, text, t, starts, ref, found) ==
  IF found = Null
    THEN [matches |-> <<>>, lastIndex |-> 0]
    ELSE AfterExec(PushMatch(text, found, Resolve(pat, found.m, t, ref)),
                   found.m.end,
                   ScanCursor(pat, text, t, starts, ref, found.m.end))

ScanCursor(pat, text, t, starts, ref, lastIndex) ==
  ScanCursorFound(pat, text, t, starts, ref, Exec(pat, t, starts, lastIndex))

\* the for loop of findAllMatches on pattern objects that hold `cursors`
ScanAllCursors(text, t, ref, cursors) ==
  [p \in DOMAIN DATE_PATTERNS |->
     ScanCursor(DATE_PATTERNS[p], text, t, WordStarts(t), ref,
                resetLastIndex(cursors[p]))]

\* InputParser.parse on shared patterns: its result, where each scan
\* started and the lastIndex each pattern holds afterwards
ParseScans(text, scans, cursors) ==
  [result    |-> ParseMatches(text, Flat([p \in DOMAIN scans |-> scans[p].matches])),
   started   |-> [p \in DOMAIN scans |-> resetLastIndex(cursors[p])],
   lastIndex |-> [p \in DOMAIN scans |-> scans[p].lastIndex]]

parseShared(text, ref, cursors) ==
  ParseScans(text, ScanAllCursors(text, ToLower(text), ref, cursors), cursors)

(***************************************************************************)
(* The editor's form and the form-filling part of processText.  A form is  *)
(* the record of the all-day checkbox, the four date and time fields, the  *)
(* set of elements queryEditorElements found, and the synthetic events the *)
(* running handler has dispatched so far.                                  *)
(***************************************************************************)
EditorFields == {"startDate", "endDate", "startTime", "endTime"}

\* String.prototype.padStart(2, '0') of a number's decimal digits
PadStart2(n) == IF n < 10 THEN <<"0">> \o ToDigits(n) ELSE ToDigits(n)

toISODateString(date) ==
  ToDigits(date.y) \o <<"-">> \o PadStart2(date.m) \o <<"-">> \o PadStart2(date.d)

\* hours24 % 12 || 12
Hours12(hours24) == IF hours24 % 12 = 0 THEN 12 ELSE hours24 % 12

\* the instants of the model are whole hours: getMinutes() is 0
toTimeString(date) ==
  ToDigits(Hours12(date.h)) \o <<":">> \o PadStart2(0) \o <<" ">>
    \o (IF date.h >= 12 THEN <<"P","M">> ELSE <<"A","M">>)

\* endDate.setHours(endDate.getHours() + 1)
AddHour(date) ==
  IF date.h = 23 THEN AtHour(addDays(date, 1), 0) ELSE AtHour(date, date.h + 1)

\* input.dispatchEvent(new Event('focus', ...)) on the title input
rerender(form) == [form EXCEPT !.sent = Append(@, "focus")]

\* checkbox.click() unless the checkbox is missing, hidden or already so
setAllDayCheckbox(form, checked) ==
  IF "allDay" \notin form.found \/ form.allDay = checked
    THEN form
    ELSE [form EXCEPT !.allDay = checked, !.sent = Append(@, "click")]

prepareForDateOnly(form) == setAllDayCheckbox(form, TRUE)

prepareForDateTime(form) == setAllDayCheckbox(form, FALSE)

\* the body shared by setDate and setTime: nothing is written when the field
\* is missing or already holds the formatted value
SetField(form, field, formatted) ==
  IF field \notin form.found \/ form[field] = formatted
    THEN form
    ELSE [form EXCEPT ![field] = formatted, !.sent = Append(@, field)]

setDate(form, date, which) ==
  SetField(form, IF which = "start" THEN "startDate" ELSE "endDate",
           toISODateString(date))

setTime(form, time, which) ==
  SetField(form, IF which = "start" THEN "startTime" ELSE "endTime",
           toTimeString(time))

HasStart(ev) == "start" \in DOMAIN ev

HasEnd(ev) == "end" \in DOMAIN ev

\* a default end that is also made for a start with neither date nor time
DefaultEndUnflagged(start) ==
  IF start.hasTime
    THEN [date |-> AddHour(start.date), hasTime |-> TRUE,
          hasDate |-> start.hasDate]
    ELSE [date |-> start.date, hasTime |-> FALSE, hasDate |-> TRUE]

\* the end computed when none was parsed, or Null when none is computed
DefaultEnd(start) ==
  IF start.hasTime
    THEN [date |-> AddHour(start.date), hasTime |-> TRUE,
          hasDate |-> start.hasDate]
    ELSE IF start.hasDate
           THEN [date |-> start.date, hasTime |-> FALSE, hasDate |-> TRUE]
           ELSE Null

\* result.event after `if (!result.event.end) { ... }`
WithDefaultEnd(ev) ==
  IF HasEnd(ev) \/ DefaultEnd(ev.start) = Null
    THEN ev
    ELSE [start |-> ev.start, end |-> DefaultEnd(ev.start)]

\* prepareForDateTime or prepareForDateOnly, then rerender()
Prepare(form, ev) ==
  rerender(IF ev.start.hasTime THEN prepareForDateTime(form)
                               ELSE prepareForDateOnly(form))

\* the start date written whatever start.hasDate says
WriteStartDateUngated(form, ev) == setDate(form, ev.start.date, "start")

WriteStartDate(form, ev) ==
  IF ev.start.hasDate THEN setDate(form, ev.start.date, "start") ELSE form

WriteEndDate(form, ev) ==
  IF HasEnd(ev) /\ ev.end.hasDate THEN setDate(form, ev.end.date, "end")
                                  ELSE form

WriteStartTime(form, ev) ==
  IF ev.start.hasTime THEN setTime(form, ev.start.date, "start") ELSE form

WriteEndTime(form, ev) ==
  IF ev.start.hasTime /\ HasEnd(ev) /\ ev.end.hasTime
    THEN setTime(form, ev.end.date, "end")
    ELSE form

WriteFields(form, ev) ==
  WriteEndTime(WriteStartTime(WriteEndDate(WriteStartDate(form, ev), ev), ev),
               ev)

\* rerender() again when one of the four set calls returned true
RerenderIfChanged(prepared, written) ==
  IF written # prepared THEN rerender(written) ELSE written

FillWith(prepared, ev) == RerenderIfChanged(prepared, WriteFields(prepared, ev))

\* a processText that re-renders the editor even without event.start
FillFormAlwaysRerender(form, ev) ==
  IF HasStart(ev)
    THEN [form  |-> FillWith(Prepare([form EXCEPT !.sent = <<>>], ev),
                             WithDefaultEnd(ev)),
          event |-> WithDefaultEnd(ev)]
    ELSE [form |-> rerender([form EXCEPT !.sent = <<>>]), event |-> ev]

\* the form and the event after processText saw result.event
FillForm(form, ev) ==
  IF HasStart(ev)
    THEN [form  |-> FillWith(Prepare([form EXCEPT !.sent = <<>>], ev),
                             WithDefaultEnd(ev)),
          event |-> WithDefaultEnd(ev)]
    ELSE [form |-> [form EXCEPT !.sent = <<>>], event |-> ev]

(***************************************************************************)
(* The attachment of the extension to title inputs.  An attachment is the  *)
(* record of the document (the mounted editors in document order, each     *)
(* with its title input, with or without the event edit page and a Save    *)
(* button), of what the extension installed on the elements (marker,       *)
(* listeners, overlays) and of the AttachmentManager's fields.  Editors    *)
(* are numbered from 1; 0 stands for null.                                 *)
(***************************************************************************)
\* the number of editors the document may hold
MaxEditors == 2

\* the number of times an editor is mounted in a behaviour
MaxMounts == 4

Editors == 1..MaxEditors

\* document.querySelector('button[aria-label="Save"]'): the editor of the
\* first Save button in document order
SaveButtonIn(withSave) == IF withSave = <<>> THEN 0 ELSE withSave[1].id

querySaveButton(doc) == SaveButtonIn(SelectSeq(doc, LAMBDA ed : ed.save))

\* document.querySelector(SELECTORS.eventEditPage)
queryEventEditPage(doc) == \E k \in DOMAIN doc : doc[k].page

\* element.removeEventListener(handler) where the handler sits on `holder`
RemoveListener(listeners, element, holder) ==
  IF element # 0 /\ element = holder
    THEN [listeners EXCEPT ![element] = listeners[element] - 1]
    ELSE listeners

\* this.overlay?.destroy(); this.overlay = null
DestroyOverlay(a) ==
  IF a.overlay
    THEN [a EXCEPT !.overlays = a.overlays - 1, !.overlay = FALSE]
    ELSE a

\* the Save button is looked up again when the handler is removed
detachSaveButtonHandler(a) ==
  IF a.saveButtonHandler = 0
    THEN a
    ELSE [a EXCEPT
            !.saveListeners = RemoveListener(a.saveListeners,
                                             querySaveButton(a.doc),
                                             a.saveButtonHandler),
            !.saveButtonHandler = 0]

detachKeydownHandler(a, i) ==
  IF a.keydownHandler = 0
    THEN a
    ELSE [a EXCEPT
            !.keydownListeners = RemoveListener(a.keydownListeners, i,
                                                a.keydownHandler),
            !.keydownHandler = 0]

\* the end of detachFromTitleInput: the input listener kept in
\* __smartQuickAddHandler is removed, and the marker
DetachInput(a, i) ==
  [a EXCEPT
     !.inputListeners = IF i \in a.handlerProperty
                          THEN [a.inputListeners EXCEPT ![i] = a.inputListeners[i] - 1]
                          ELSE a.inputListeners,
     !.handlerProperty = a.handlerProperty \ {i},
     !.marked = a.marked \ {i}]

detachFromTitleInput(a, i) ==
  IF i = 0
    THEN a
    ELSE DetachInput(
           detachKeydownHandler(detachSaveButtonHandler(DestroyOverlay(a)), i),
           i)

\* the Save-click listener goes on the Save button found now, if any
AttachSaveClick(a, saveButton) ==
  IF saveButton = 0
    THEN a
    ELSE [a EXCEPT
            !.saveListeners = [a.saveListeners EXCEPT
                                 ![saveButton] = a.saveListeners[saveButton] + 1],
            !.saveButtonHandler = saveButton]

attachSaveButtonHandler(a, i) ==
  [AttachSaveClick(a, querySaveButton(a.doc)) EXCEPT
     !.keydownListeners = [@ EXCEPT ![i] = @ + 1],
     !.keydownHandler = i]

attachToTitleInput(a, i) ==
  attachSaveButtonHandler(
    [a EXCEPT
       !.overlays = a.overlays + 1,
       !.overlay = TRUE,
       !.inputListeners = [a.inputListeners EXCEPT ![i] = a.inputListeners[i] + 1],
       !.handlerProperty = a.handlerProperty \cup {i}],
    i)

\* onEditorDetected gets past its two early returns
Detects(a, i) == i \notin a.marked /\ queryEventEditPage(a.doc)

\* `if (this.currentTitleInput && this.currentTitleInput !== input)`
DetachOther(a, i) ==
  IF a.currentTitleInput # 0 /\ a.currentTitleInput # i
    THEN detachFromTitleInput(a, a.currentTitleInput)
    ELSE a

\* setAttribute(ATTACHED_ATTR); this.currentTitleInput = input
MarkCurrent(a, i) ==
  [a EXCEPT !.marked = a.marked \cup {i}, !.currentTitleInput = i]

onEditorDetected(a, i) ==
  IF ~Detects(a, i) THEN a
  ELSE attachToTitleInput(MarkCurrent(DetachOther(a, i), i), i)

onEditorClosed(a) ==
  [detachFromTitleInput(a, a.currentTitleInput) EXCEPT !.currentTitleInput = 0]

\* AttachmentManager.destroy
destroy(a) ==
  [detachFromTitleInput([a EXCEPT !.observing = FALSE], a.currentTitleInput)
     EXCEPT !.currentTitleInput = 0]

\* the document with `editor` inserted so that `before` editors precede it
InsertEditor(doc, before, editor) ==
  SubSeq(doc, 1, before) \o <<editor>> \o SubSeq(doc, before + 1, Len(doc))

Mounted(doc) == {doc[k].id : k \in DOMAIN doc}

\* an empty document just after the AttachmentManager was constructed
NoEditor ==
  [doc               |-> <<>>,
   marked            |-> {},
   inputListeners    |-> [e \in Editors |-> 0],
   keydownListeners  |-> [e \in Editors |-> 0],
   saveListeners     |-> [e \in Editors |-> 0],
   handlerProperty   |-> {},
   overlays          |-> 0,
   overlay           |-> FALSE,
   currentTitleInput |-> 0,
   saveButtonHandler |-> 0,
   keydownHandler    |-> 0,
   observing         |-> TRUE,
   mounts            |-> 0]

\* the full event edit page with a Save button was opened and detected
OneEditor ==
  onEditorDetected(
    [NoEditor EXCEPT !.doc = <<[id |-> 1, page |-> TRUE, save |-> TRUE]>>,
                     !.mounts = 1],
    1)

(***************************************************************************)
(* The TitleOverlay of the attached title input.  An overlay is the record *)
(* of its three flags, of rafId (0 stands for null), of the animation-     *)
(* frame callbacks the browser holds for it (requested, and neither run    *)
(* nor cancelled yet), of the number of requestAnimationFrame calls so far *)
(* (a request's id is its number) and of the opacity of the mirrored text. *)
(***************************************************************************)
\* TitleOverlay.setDisabled: only the button's label and the styles change
setDisabled(o, disabled) ==
  [o EXCEPT !.isDisabled = disabled, !.opacity = IF disabled THEN 0 ELSE 1]

\* this.rafId = requestAnimationFrame(tick)
requestAnimationFrame(o) ==
  [o EXCEPT !.frames = o.frames + 1,
            !.rafId = o.frames + 1,
            !.pending = o.pending \cup {o.frames + 1}]

\* cancelAnimationFrame(this.rafId); this.rafId = null, when rafId is not null
cancelAnimationFrame(o) ==
  IF o.rafId = 0
    THEN o
    ELSE [o EXCEPT !.pending = o.pending \ {o.rafId}, !.rafId = 0]

startPositionTracking(o) == requestAnimationFrame(o)

\* whether the callback `tick` gets as far as updatePosition()
tickUpdates(o) == ~o.isDestroyed /\ ~o.isPaused

\* the browser runs the pending callback `id`
tick(o, id) ==
  IF o.isDestroyed
    THEN [o EXCEPT !.pending = o.pending \ {id}]
    ELSE IF o.isPaused
           THEN [o EXCEPT !.pending = o.pending \ {id}, !.rafId = 0]
           ELSE requestAnimationFrame([o EXCEPT !.pending = o.pending \ {id}])

\* a pause that sets the flag and leaves the requested frame to the browser
overlayPauseNoCancel(o) ==
  IF o.isPaused THEN o ELSE [o EXCEPT !.isPaused = TRUE]

\* TitleOverlay.pause
overlayPause(o) ==
  IF o.isPaused THEN o ELSE cancelAnimationFrame([o EXCEPT !.isPaused = TRUE])

\* TitleOverlay.resume
overlayResume(o) ==
  IF ~o.isPaused \/ o.isDestroyed
    THEN o
    ELSE startPositionTracking([o EXCEPT !.isPaused = FALSE])

\* TitleOverlay.destroy
overlayDestroy(o) == cancelAnimationFrame([o EXCEPT !.isDestroyed = TRUE])

\* the click listener of the toggle button; attachToTitleInput constructs the
\* overlay without an onToggle callback
toggleClick(o) == setDisabled(o, ~o.isDisabled)

\* new TitleOverlay(input)
NewOverlay ==
  setDisabled(
    startPositionTracking(
      [isDisabled |-> FALSE, isPaused |-> FALSE, isDestroyed |-> FALSE,
       rafId |-> 0, pending |-> {}, frames |-> 0, opacity |-> 1]),
    FALSE)

(***************************************************************************)
(* The title input and the parse of its value                              *)
(***************************************************************************)
VARIABLES
  value,       \* the title input's value
  now,         \* the wall-clock instant the resolvers read (new Date())
  matches,     \* last parse: the accepted candidates, in registry order
  filtered,    \* last parse: the candidates kept by filterOverlappingMatches
  tokens,      \* last parse: result.tokens (what the overlay shows)
  event,       \* last parse: result.event
  cleanTitle,  \* AttachmentManager.cleanTitle = result.cleanTitle
  form,        \* the editor's form and the synthetic events of the last handler
  attachment,  \* the document and what the extension attached to it
  overlay,     \* the TitleOverlay of the attached title input, or Null
  lastIndex,   \* the lastIndex of each shared pattern of DATE_PATTERNS
  inputs,      \* number of input events so far
  input,       \* what the last input event was
  origin       \* the value and parse a commit replaced, or Null

vars ==
  <<value, now, matches, filtered, tokens, event, cleanTitle, form,
    attachment, overlay, lastIndex, inputs, input, origin>>

\* the number of input events of a behaviour
MaxInputs == 3

\* the largest component of a typed slash date
MaxSlash == 32

\* the reference years of the 2-digit-year test
FirstYear == 1995

LastYear == 2030

\* what one input event appends to the title
Lexemes ==
  { <<" ">>, <<"/">>, <<"5">>, <<"2","7">>, <<"2","0","2","5">>,
    <<"j","a","n">>, <<"p","m">>,
    <<"t","o","m","o","r","r","o","w">>,
    <<"M","e","e","t","i","n","g">> }

Meeting == <<"M","e","e","t","i","n","g"," ">>

\* 'Meeting jan 27 2025'
ExLongest ==
  <<"M","e","e","t","i","n","g"," ","j","a","n"," ","2","7"," ","2","0","2",
    "5">>

\* 'Meeting jan 27 with John'
ExMiddle ==
  <<"M","e","e","t","i","n","g"," ","j","a","n"," ","2","7"," ","w","i","t",
    "h"," ","J","o","h","n">>

\* 'Team standup tomorrow'
ExEnd ==
  <<"T","e","a","m"," ","s","t","a","n","d","u","p"," ","t","o","m","o","r",
    "r","o","w">>

\* 'tomorrow Team standup'
ExStart ==
  <<"t","o","m","o","r","r","o","w"," ","T","e","a","m"," ","s","t","a","n",
    "d","u","p">>

\* 'Regular meeting notes'
ExNoDate ==
  <<"R","e","g","u","l","a","r"," ","m","e","e","t","i","n","g"," ","n","o",
    "t","e","s">>

\* 'Meeting jan 12:00'
ExClock ==
  <<"M","e","e","t","i","n","g"," ","j","a","n"," ","1","2",":","0","0">>

\* 'Meeting 13/5/2025'
ExSwap ==
  <<"M","e","e","t","i","n","g"," ","1","3","/","5","/","2","0","2","5">>

\* 'Meeting 2025-01-27'
ExIso ==
  <<"M","e","e","t","i","n","g"," ","2","0","2","5","-","0","1","-","2","7">>

\* 'Meeting jan 27 with John born in jan'
ExBornIn ==
  <<"M","e","e","t","i","n","g"," ","j","a","n"," ","2","7"," ","w","i","t",
    "h"," ","J","o","h","n"," ","b","o","r","n"," ","i","n"," ","j","a","n">>

\* 'Regular  meeting'
ExDoubleSpace ==
  <<"R","e","g","u","l","a","r"," "," ","m","e","e","t","i","n","g">>

\* 'jan tomorrow 27'
ExJoin ==
  <<"j","a","n"," ","t","o","m","o","r","r","o","w"," ","2","7">>

\* 'jan jan 27 27pm'
ExStraddle ==
  <<"j","a","n"," ","j","a","n"," ","2","7"," ","2","7","p","m">>

Examples ==
  { ExLongest,
    ExMiddle,
    ExEnd,
    ExStart,
    ExNoDate,
    ExClock,
    ExSwap,
    ExIso,
    ExBornIn,
    ExDoubleSpace,
    ExJoin,
    ExStraddle }

\* Sunday 15 June 2025, noon
Noon == [y |-> 2025, m |-> 6, d |-> 15, h |-> 12]

\* a processText that puts the clean title into the title input while the
\* user types
ShowFilledWithCleanTitle(text, result, filled) ==
  /\ value' = result.cleanTitle
  /\ matches' = result.matches
  /\ filtered' = result.filtered
  /\ tokens' = result.tokens
  /\ event' = filled.event
  /\ cleanTitle' = result.cleanTitle
  /\ form' = filled.form
  /\ UNCHANGED <<now, attachment, overlay>>

\* the title input's value is `text` and processText(text) has run on the
\* parser's result: the overlay shows the tokens, the clean title is kept and
\* the form is filled; the handler does not assign the title input's value
ShowFilled(text, result, filled) ==
  /\ value' = text
  /\ matches' = result.matches
  /\ filtered' = result.filtered
  /\ tokens' = result.tokens
  /\ event' = filled.event
  /\ cleanTitle' = result.cleanTitle
  /\ form' = filled.form
  /\ UNCHANGED <<now, attachment, overlay>>

\* every scan of the parse ran until exec returned null
ShowResult(text, result) ==
  /\ ShowFilled(text, result, FillForm(form, result.event))
  /\ lastIndex' = ScanEnded

ProcessText(text) == ShowResult(text, parse(text, now))

\* the editor as it opens: a timed event starting at the current hour
OpenedForm ==
  [allDay    |-> FALSE,
   startDate |-> toISODateString(now),
   endDate   |-> toISODateString(AddHour(now)),
   startTime |-> toTimeString(now),
   endTime   |-> toTimeString(AddHour(now)),
   found     |-> EditorFields \cup {"allDay"},
   sent      |-> <<>>]

\* nothing typed and nothing parsed yet
Untyped ==
  /\ value = <<>>
  /\ matches = <<>>
  /\ filtered = <<>>
  /\ tokens = <<>>
  /\ event = <<>>
  /\ cleanTitle = <<>>
  /\ lastIndex = ScanEnded
  /\ inputs = 0
  /\ input = [op |-> "attach"]
  /\ origin = Null

Blank ==
  Untyped /\ form = OpenedForm /\ attachment = OneEditor /\ overlay = NewOverlay

\* attached to an empty title input
Init == now = Noon /\ Blank

\* handleInput after the user typed one more piece of text
TypeText ==
  /\ inputs < MaxInputs
  /\ \E w \in Lexemes : ProcessText(value \o w)
  /\ inputs' = inputs + 1
  /\ input' = [op |-> "type"]
  /\ origin' = Null

\* handleInput after the user pasted a whole title into the empty input
PasteTitle ==
  /\ inputs < MaxInputs
  /\ value = <<>>
  /\ \E e \in Examples : ProcessText(e)
  /\ inputs' = inputs + 1
  /\ input' = [op |-> "paste"]
  /\ origin' = Null

\* replaceWithCleanTitle: when a clean title is stored and differs from the
\* value, the native setter puts it into the title input and the input event
\* dispatched after it parses it again; otherwise nothing happens
replaceWithCleanTitle ==
  IF cleanTitle # <<>> /\ value # cleanTitle
    THEN /\ origin' = [value |-> value, filtered |-> filtered, tokens |-> tokens]
         /\ ProcessText(cleanTitle)
    ELSE /\ origin' = Null
         /\ UNCHANGED <<value, now, matches, filtered, tokens, event, cleanTitle,
                        form, attachment, overlay, lastIndex>>

\* a click on Save or an Enter keydown in the title input; the text the user
\* had typed before the first of consecutive commits is remembered
Commit ==
  /\ replaceWithCleanTitle
  /\ input' = [op    |-> "commit",
               typed |-> IF input.op = "commit" THEN input.typed ELSE value,
               again |-> input.op = "commit"]
  /\ UNCHANGED inputs

Next == TypeText \/ PasteTitle \/ Commit

Spec == Init /\ [][Next]_vars

(***************************************************************************)
(* Slash dates with a year: 'Meeting a/b/y' for every a, b in 0..MaxSlash  *)
(***************************************************************************)
SlashYears == {2024, 2025}

SlashText(a, b, y) ==
  Meeting \o ToDigits(a) \o <<"/">> \o ToDigits(b) \o <<"/">> \o ToDigits(y)

TypeSlashDate ==
  /\ inputs = 0
  /\ \E a \in 0..MaxSlash, b \in 0..MaxSlash, y \in SlashYears :
       /\ ProcessText(SlashText(a, b, y))
       /\ input' = [op |-> "slash", a |-> a, b |-> b, y |-> y]
  /\ inputs' = inputs + 1
  /\ origin' = Null

SpecSlash == Init /\ [][TypeSlashDate]_vars

(***************************************************************************)
(* The 2-digit-year test, run at reference instants of every year          *)
(***************************************************************************)
TestInstants ==
  { [y |-> yr, m |-> mo, d |-> 1, h |-> hr] :
      yr \in FirstYear..LastYear, mo \in {3, 12}, hr \in {0, 12} }

\* parser.parse(`Meeting 01/15/${twoDigit}`) with twoDigit = currentYear % 100
RunTwoDigitYearTest ==
  /\ inputs = 0
  /\ ProcessText(Meeting \o <<"0","1","/","1","5","/">> \o ToDigits(now.y % 100))
  /\ inputs' = inputs + 1
  /\ input' = [op |-> "test"]
  /\ origin' = Null

\* attached to an empty title input, at any of the test's instants
InitCentury == now \in TestInstants /\ Blank

SpecCentury == InitCentury /\ [][RunTwoDigitYearTest]_vars
(***************************************************************************)
(* A weekday name typed at reference instants of every day of the week     *)
(***************************************************************************)
\* the number of consecutive reference days from each first day
WeekdayDays == 14

\* first days before the end of a month and before the end of a leap year
WeekdayFirstDays ==
  { [y |-> 2025, m |-> 2, d |-> 23, h |-> 0],
    [y |-> 2024, m |-> 12, d |-> 25, h |-> 0] }

WeekdayInstants ==
  { AtHour(addDays(first, k), hr) :
      first \in WeekdayFirstDays, k \in 0..(WeekdayDays - 1), hr \in {0, 23} }

WeekdayPatterns == {p \in DOMAIN DATE_PATTERNS : DATE_PATTERNS[p].kind = "weekday"}

\* handleInput after the user typed 'Meeting ' and a weekday name or
\* abbreviation
TypeWeekday ==
  /\ inputs = 0
  /\ \E p \in WeekdayPatterns :
       \E w \in DOMAIN DATE_PATTERNS[p].words :
         /\ ProcessText(Meeting \o DATE_PATTERNS[p].words[w])
         /\ input' = [op |-> "weekday", t |-> DATE_PATTERNS[p].day]
  /\ inputs' = inputs + 1
  /\ origin' = Null

\* attached to an empty title input, at any of the reference instants
InitWeekday == now \in WeekdayInstants /\ Blank

SpecWeekday == InitWeekday /\ [][TypeWeekday]_vars

(***************************************************************************)
(* A month name and a day followed by a clock-time suffix                  *)
(***************************************************************************)
ClockMonths == { <<"j","a","n">>, <<"J","a","n","u","a","r","y">> }

ClockDays ==
  { <<"1">>, <<"1","2">>, <<"2","7">>, <<"1","s","t">>, <<"1","2","t","h">>,
    <<"f","i","r","s","t">> }

\* the whitespace between the day and what follows it
ClockGaps == { <<>>, <<" ">>, <<" "," ">> }

\* am, pm, or a colon and a digit
ClockSuffixes ==
  { <<"a","m">>, <<"p","m">>, <<"P","M">>, <<"A","m">>, <<":","0">>,
    <<":","0","0">>, <<":","3","0">> }

\* what else may follow a day
OtherSuffixes == { <<>>, <<":">>, <<":","x">>, <<",">>, <<"o","n">> }

\* the end of the title: nothing, or a year
ClockTails == { <<>>, <<" ","2","0","2","5">> }

\* handleInput after the user typed 'Meeting ', a month name, a day, and a
\* suffix after optional whitespace
TypeMonthDaySuffix ==
  /\ inputs = 0
  /\ \E mo \in ClockMonths, dy \in ClockDays, gap \in ClockGaps,
        sfx \in ClockSuffixes \cup OtherSuffixes, tail \in ClockTails :
       /\ ProcessText(Meeting \o mo \o <<" ">> \o dy \o gap \o sfx \o tail)
       /\ input' = [op |-> "suffix", day |-> dy, gap |-> gap,
                    clock |-> sfx \in ClockSuffixes, tail |-> tail]
  /\ inputs' = inputs + 1
  /\ origin' = Null

SpecClock == Init /\ [][TypeMonthDaySuffix]_vars

(***************************************************************************)
(* Dates typed with every day and month number, in and out of range        *)
(***************************************************************************)
\* the largest month number of a typed ISO date
MaxIsoMonth == 14

\* the largest day number typed after a month name
MaxNamedDay == 33

RangeYears == {2024, 2025}

\* the month names typed before a day, with their numbers
RangeMonths ==
  { [name |-> <<"f","e","b">>, m |-> 2],
    [name |-> <<"a","p","r","i","l">>, m |-> 4],
    [name |-> <<"D","e","c">>, m |-> 12] }

\* handleInput after the user typed 'Meeting y-m-d'
TypeIsoDate ==
  /\ inputs = 0
  /\ \E y \in RangeYears, m \in 0..MaxIsoMonth, d \in 0..MaxSlash :
       /\ ProcessText(Meeting \o ToDigits(y) \o <<"-">> \o ToDigits(m)
                        \o <<"-">> \o ToDigits(d))
       /\ input' = [op |-> "iso", y |-> y, m |-> m, d |-> d]
  /\ inputs' = inputs + 1
  /\ origin' = Null

\* handleInput after the user typed 'Meeting <month> d' or
\* 'Meeting <month> d y'
TypeMonthDay ==
  /\ inputs = 0
  /\ \E mo \in RangeMonths, d \in 0..MaxNamedDay, y \in RangeYears \cup {0} :
       /\ ProcessText(Meeting \o mo.name \o <<" ">> \o ToDigits(d)
                        \o (IF y = 0 THEN <<>> ELSE <<" ">> \o ToDigits(y)))
       /\ input' = [op |-> "named", y |-> y, m |-> mo.m, d |-> d]
  /\ inputs' = inputs + 1
  /\ origin' = Null

\* handleInput after the user typed 'Meeting a/b'
TypeShortSlash ==
  /\ inputs = 0
  /\ \E a \in 0..MaxSlash, b \in 0..MaxSlash :
       /\ ProcessText(Meeting \o ToDigits(a) \o <<"/">> \o ToDigits(b))
       /\ input' = [op |-> "short", a |-> a, b |-> b]
  /\ inputs' = inputs + 1
  /\ origin' = Null

NextRange == TypeIsoDate \/ TypeMonthDay \/ TypeShortSlash

SpecRange == Init /\ [][NextRange]_vars

(***************************************************************************)
(* The time-parsing tests, run at reference instants of every year         *)
(***************************************************************************)
\* the titles of the tests with the flags and the start hour they expect
TimeTests ==
  {
    \* 'Meeting tomorrow at 3pm'
    [text |-> <<"M","e","e","t","i","n","g"," ","t","o","m","o","r","r","o",
                "w"," ","a","t"," ","3","p","m">>,
     hasDate |-> TRUE, hasTime |-> TRUE, hour |-> 15],
    \* 'Meeting tomorrow'
    [text |-> <<"M","e","e","t","i","n","g"," ","t","o","m","o","r","r","o",
                "w">>,
     hasDate |-> TRUE, hasTime |-> FALSE, hour |-> 0],
    \* 'Meeting at 3pm'
    [text |-> <<"M","e","e","t","i","n","g"," ","a","t"," ","3","p","m">>,
     hasDate |-> FALSE, hasTime |-> TRUE, hour |-> 15],
    \* 'Meeting monday'
    [text |-> <<"M","e","e","t","i","n","g"," ","m","o","n","d","a","y">>,
     hasDate |-> TRUE, hasTime |-> FALSE, hour |-> 0],
    \* 'Meeting jan 27'
    [text |-> <<"M","e","e","t","i","n","g"," ","j","a","n"," ","2","7">>,
     hasDate |-> TRUE, hasTime |-> FALSE, hour |-> 0],
    \* 'Meeting tomorrow from 10 to 11 AM'
    [text |-> <<"M","e","e","t","i","n","g"," ","t","o","m","o","r","r","o",
                "w"," ","f","r","o","m"," ","1","0"," ","t","o"," ","1","1",
                " ","A","M">>,
     hasDate |-> TRUE, hasTime |-> TRUE, hour |-> 10] }

\* parser.parse(title) for a title of the time-parsing tests
RunTimeParsingTest ==
  /\ inputs = 0
  /\ \E t \in TimeTests :
       /\ ProcessText(t.text)
       /\ input' = [op |-> "flags", hasDate |-> t.hasDate,
                    hasTime |-> t.hasTime, hour |-> t.hour]
  /\ inputs' = inputs + 1
  /\ origin' = Null

SpecTimes == InitCentury /\ [][RunTimeParsingTest]_vars

(***************************************************************************)
(* The form-filling layer on every event the parser's declared result type *)
(* allows: start and end with any certainty flags, or no start             *)
(***************************************************************************)
\* the number of title input events of a behaviour of the form layer
MaxFormInputs == 2

\* start instants: an afternoon, and the last hour of a year
StartDates ==
  { [y |-> 2025, m |-> 6, d |-> 16, h |-> 15],
    [y |-> 2025, m |-> 12, d |-> 31, h |-> 23] }

EndDates == { [y |-> 2025, m |-> 6, d |-> 17, h |-> 11] }

\* interface ParsedDateTime
ParsedDateTimes(dates) ==
  { [date |-> d, hasTime |-> t, hasDate |-> a] :
      d \in dates, t \in BOOLEAN, a \in BOOLEAN }

\* interface EventData
EventDatas ==
  {<<>>}
    \cup { [start |-> s] : s \in ParsedDateTimes(StartDates) }
    \cup { [start |-> s, end |-> e] :
             s \in ParsedDateTimes(StartDates), e \in ParsedDateTimes(EndDates) }

\* the parser's results for two titles at the reference instant
FormResults ==
  { [text |-> t, result |-> parse(t, Noon)] : t \in {ExEnd, ExNoDate} }

\* the editor as queryEditorElements may find it: all-day or timed, with
\* every element, without the checkbox, or without the time fields
OpenedForms ==
  { [OpenedForm EXCEPT !.allDay = a, !.found = f] :
      a \in BOOLEAN,
      f \in { EditorFields \cup {"allDay"}, EditorFields,
              {"allDay", "startDate", "endDate"} } }

\* handleInput where the parser's event is the one InputParser.parse builds or
\* any value of the declared EventData
TitleParsed ==
  /\ inputs < MaxFormInputs
  /\ \E r \in FormResults :
       \E ev \in EventDatas \cup {r.result.event} :
         /\ ShowResult(r.text, [r.result EXCEPT !.event = ev])
         /\ input' = [op |-> "parsed", parsed |-> ev]
  /\ inputs' = inputs + 1
  /\ origin' = Null

\* attached to an empty title input of an opened editor
InitForm ==
  /\ now = Noon
  /\ Untyped
  /\ form \in OpenedForms
  /\ attachment = OneEditor
  /\ overlay = NewOverlay

SpecForm == InitForm /\ [][TitleParsed]_vars

(***************************************************************************)
(* Editors mounted into and removed from the document                      *)
(***************************************************************************)
titleVars == <<value, matches, filtered, tokens, event, cleanTitle>>

\* the initial parse of attachToTitleInput: only the overlay and the clean
\* title are updated
ShowInitial(text, result) ==
  /\ value' = text
  /\ matches' = result.matches
  /\ filtered' = result.filtered
  /\ tokens' = result.tokens
  /\ event' = result.event
  /\ cleanTitle' = result.cleanTitle

\* after detachFromTitleInput: no overlay, and `this.cleanTitle = ''`
Cleared ==
  /\ value' = <<>>
  /\ matches' = <<>>
  /\ filtered' = <<>>
  /\ tokens' = <<>>
  /\ event' = <<>>
  /\ cleanTitle' = <<>>

\* the outcome of a MutationObserver callback or of destroy: a newly mounted
\* title input is empty
Observed(after, attached, closed) ==
  /\ attachment' = after
  /\ overlay' = IF ~after.overlay THEN Null
                ELSE IF attached THEN NewOverlay ELSE overlay
  /\ IF attached THEN ShowInitial(<<>>, parse(<<>>, now))
     ELSE IF closed THEN Cleared
     ELSE UNCHANGED titleVars
  /\ origin' = Null
  /\ UNCHANGED <<now, form, lastIndex, inputs>>

\* checkNodeForEditor on the added node, when the observer is connected
DetectIn(a, i) ==
  Observed(IF a.observing THEN onEditorDetected(a, i) ELSE a,
           a.observing /\ Detects(a, i), FALSE)

\* checkNodeForEditorClose on the removed node of editor i
CloseIn(a, i) ==
  Observed(IF a.observing /\ a.currentTitleInput = i THEN onEditorClosed(a) ELSE a,
           FALSE, a.observing /\ a.currentTitleInput = i)

\* an editor (a new one, or a removed one again) is added to the document,
\* anywhere in document order
MountEditor ==
  /\ attachment.mounts < MaxMounts
  /\ \E e \in Editors \ Mounted(attachment.doc),
        before \in 0..Len(attachment.doc), page \in BOOLEAN, save \in BOOLEAN :
       DetectIn([attachment EXCEPT
                   !.doc = InsertEditor(attachment.doc, before,
                                        [id |-> e, page |-> page, save |-> save]),
                   !.mounts = attachment.mounts + 1],
                e)
  /\ input' = [op |-> "mount"]

\* an editor is removed from the document
UnmountEditor ==
  /\ \E k \in DOMAIN attachment.doc :
       CloseIn([attachment EXCEPT
                  !.doc = SubSeq(attachment.doc, 1, k - 1)
                            \o SubSeq(attachment.doc, k + 1, Len(attachment.doc))],
               attachment.doc[k].id)
  /\ input' = [op |-> "unmount"]

\* a node holding the title input of a mounted editor is added again
DetectAgain ==
  /\ \E e \in Mounted(attachment.doc) : DetectIn(attachment, e)
  /\ input' = [op |-> "detect"]

\* AttachmentManager.destroy
Destroy ==
  /\ attachment.observing
  /\ Observed(destroy(attachment), FALSE, attachment.currentTitleInput # 0)
  /\ input' = [op |-> "destroy"]

NextAttach == MountEditor \/ UnmountEditor \/ DetectAgain \/ Destroy

\* an AttachmentManager constructed on a page without an editor
InitAttach ==
  /\ now = Noon
  /\ Untyped
  /\ form = OpenedForm
  /\ attachment = NoEditor
  /\ overlay = Null

SpecAttach == InitAttach /\ [][NextAttach]_vars

(***************************************************************************)
(* The Turn off / Turn on button while a title is pasted and committed     *)
(***************************************************************************)
\* a click on the overlay's toggle button
ToggleClick ==
  /\ overlay' = toggleClick(overlay)
  /\ input' = [op |-> "toggle"]
  /\ origin' = Null
  /\ UNCHANGED <<value, now, matches, filtered, tokens, event, cleanTitle,
                 form, attachment, lastIndex, inputs>>

NextToggle == PasteTitle \/ Commit \/ ToggleClick

SpecToggle == Init /\ [][NextToggle]_vars

(***************************************************************************)
(* One parser used for a sequence of whole titles: the shared patterns     *)
(* keep whatever lastIndex a parse leaves them with                        *)
(***************************************************************************)
\* 'Sync 2025-13-01 and 2025-01-27': the first ISO candidate is rejected
ExRejected ==
  <<"S","y","n","c"," ","2","0","2","5","-","1","3","-","0","1"," ","a","n",
    "d"," ","2","0","2","5","-","0","1","-","2","7">>

\* '2025-01-27 Sync': the only candidate starts at offset 0
ExLeading ==
  <<"2","0","2","5","-","0","1","-","2","7"," ","S","y","n","c">>

ReuseTexts == Examples \cup {ExRejected, ExLeading}

\* processText on the outcome of a parse with shared patterns
ShowShared(text, shared) ==
  /\ ShowFilled(text, shared.result, FillForm(form, shared.result.event))
  /\ lastIndex' = shared.lastIndex
  /\ input' = [op |-> "replace", before |-> value, started |-> shared.started]

\* handleInput after the user replaced the whole title by another one
ReplaceTitle ==
  /\ inputs < MaxInputs
  /\ \E e \in ReuseTexts : ShowShared(e, parseShared(e, now, lastIndex))
  /\ inputs' = inputs + 1
  /\ origin' = Null

SpecReuse == Init /\ [][ReplaceTitle]_vars

(***************************************************************************)
(* A manual edit of an editor field between two title input events that    *)
(* carry the same parsed event                                             *)
(***************************************************************************)
\* what the user puts into the edited field: 1 July 2025, 9:00 AM
ManualInstant == [y |-> 2025, m |-> 7, d |-> 1, h |-> 9]

ManualValue(field) ==
  IF field \in {"startDate", "endDate"} THEN toISODateString(ManualInstant)
                                        ELSE toTimeString(ManualInstant)

\* handleInput for a title whose parse carries an event with a start
StartApplied ==
  /\ inputs = 0
  /\ \E r \in FormResults, ev \in EventDatas :
       /\ HasStart(ev)
       /\ ShowResult(r.text, [r.result EXCEPT !.event = ev])
       /\ input' = [op |-> "applied", result |-> [r.result EXCEPT !.event = ev]]
  /\ inputs' = inputs + 1
  /\ origin' = Null

\* the user overwrites one date or time field of the editor by hand
ManualEdit ==
  /\ input.op = "applied"
  /\ \E field \in EditorFields :
       /\ form' = [form EXCEPT ![field] = ManualValue(field)]
       /\ input' = [op |-> "edit", result |-> input.result, field |-> field]
  /\ UNCHANGED <<value, now, matches, filtered, tokens, event, cleanTitle,
                 attachment, overlay, lastIndex, inputs, origin>>

\* a later input event on the title: the parse carries the same event again
SameEventParsed ==
  /\ input.op = "edit"
  /\ ShowResult(value, input.result)
  /\ input' = [op |-> "reparsed", field |-> input.field,
               manual |-> form[input.field]]
  /\ inputs' = inputs + 1
  /\ origin' = Null

NextManual == StartApplied \/ ManualEdit \/ SameEventParsed

SpecManual == Init /\ [][NextManual]_vars

(***************************************************************************)
(* The overlap resolver on every short list of candidates                  *)
(***************************************************************************)
\* the largest offset of a candidate span
MaxPos == 3

\* the largest number of candidates exec finds in a text
MaxCandidates == 3

\* what the scans may find: a non-empty span and the resolver's date, Null
\* when the resolver rejected the candidate
Spans == {sp \in (0..MaxPos) \X (0..MaxPos) : sp[1] < sp[2]}

Candidates ==
  { [start |-> sp[1], end |-> sp[2], raw |-> <<>>, date |-> d] :
      sp \in Spans, d \in {Null, Noon} }

RECURSIVE CandidateLists(_)
CandidateLists(n) ==
  IF n = 0 THEN {<<>>}
  ELSE CandidateLists(n - 1)
         \cup { Append(cs, c) :
                  cs \in {l \in CandidateLists(n - 1) : Len(l) = n - 1},
                  c \in Candidates }

\* `if (date === null) continue;` of findAllMatches: only accepted candidates
\* are pushed
Accepted(candidates) == SelectSeq(candidates, LAMBDA c : c.date # Null)

\* findAllMatches found `candidates`, in registry order, and parse resolved
\* the overlaps of the accepted ones
ResolveOverlaps ==
  /\ inputs = 0
  /\ \E cs \in CandidateLists(MaxCandidates) :
       /\ matches' = Accepted(cs)
       /\ filtered' = filterOverlappingMatches(Accepted(cs))
       /\ input' = [op |-> "resolve", candidates |-> cs]
  /\ inputs' = inputs + 1
  /\ UNCHANGED <<value, now, tokens, event, cleanTitle, form, attachment,
                 overlay, lastIndex, origin>>

SpecOverlap == Init /\ [][ResolveOverlaps]_vars

(***************************************************************************)
(* Slash dates with every written year of two digits, and some longer      *)
(* ones, typed in every reference year                                     *)
(***************************************************************************)
YearInstants ==
  { [y |-> yr, m |-> 6, d |-> 15, h |-> 12] : yr \in FirstYear..LastYear }

\* \d{2,4}: two digits, and years of three and four digits
WrittenYears == (0..99) \cup {100, 101, 999, 1950, 2025}

\* 'Meeting 1/15/yy' with the year written in at least two digits
WrittenYearText(y) ==
  Meeting \o <<"1","/","1","5","/">> \o PadStart2(y)

TypeWrittenYear ==
  /\ inputs = 0
  /\ \E y \in WrittenYears :
       /\ ProcessText(WrittenYearText(y))
       /\ input' = [op |-> "year", y |-> y]
  /\ inputs' = inputs + 1
  /\ origin' = Null

\* attached to an empty title input, in the middle of any reference year
InitYears == now \in YearInstants /\ Blank

SpecYears == InitYears /\ [][TypeWrittenYear]_vars

(***************************************************************************)
(* Short slash dates typed on every day of two years, one of them a leap   *)
(* year                                                                    *)
(***************************************************************************)
\* the number of days after 1 January 2024 that a reference instant may lie
RefDays == 730

\* midnight in the leap year 2024 and after it, noon in 2025
RefInstants ==
  { AtHour(addDays([y |-> 2024, m |-> 1, d |-> 1, h |-> 0], n),
           IF n < 366 THEN 0 ELSE 12) : n \in 0..RefDays }

\* the first, the 29th and the last day of a winter, a summer and the
\* shortest month
SlashDays == {1, 29, 31}

SlashMonths == {1, 2, 7, 12}

\* 'Meeting d/m'
TypeDayMonth ==
  /\ inputs = 0
  /\ \E day \in SlashDays, month \in SlashMonths :
       /\ ProcessText(Meeting \o ToDigits(day) \o <<"/">> \o ToDigits(month))
       /\ input' = [op |-> "daymonth", day |-> day, month |-> month]
  /\ inputs' = inputs + 1
  /\ origin' = Null

\* attached to an empty title input at any of the reference instants
InitNearest == now \in RefInstants /\ Blank

SpecNearest == InitNearest /\ [][TypeDayMonth]_vars

(***************************************************************************)
(* The extension is loaded on an open editor whose title input already     *)
(* holds text                                                              *)
(***************************************************************************)
\* titles of the event being edited: with a date, without one, empty
InitialTitles == {ExEnd, ExNoDate, <<>>}

\* the parser's results for the initial titles at the reference instant
InitialResults == [t \in InitialTitles |-> parse(t, Noon)]

\* an attach that hands the initial value to processText
PreviewFormProcessed(opened, ev) == FillForm(opened, ev).form

\* "For initial input, only update the overlay and do not change the editor
\* state": attachToTitleInput does not call processText
PreviewForm(opened, ev) == [opened EXCEPT !.sent = <<>>]

\* new AttachmentManager(): init, checkForEditor, onEditorDetected and
\* attachToTitleInput on the title input found; the parser's event is the one
\* InputParser.parse builds or any value of the declared EventData
AttachExisting ==
  /\ input.op = "open"
  /\ \E ev \in EventDatas \cup {InitialResults[value].event} :
       /\ ShowInitial(value, [InitialResults[value] EXCEPT !.event = ev])
       /\ form' = PreviewForm(form, ev)
       /\ input' = [op |-> "attached", parsed |-> ev]
  /\ attachment' = onEditorDetected(attachment, 1)
  /\ overlay' = NewOverlay
  /\ UNCHANGED <<now, lastIndex, inputs, origin>>

\* a title input event once the input listener is attached
TypeAfterAttach == attachment.handlerProperty # {} /\ TitleParsed

NextPreview == AttachExisting \/ TypeAfterAttach

\* the full event edit page is open and no AttachmentManager exists yet
InitPreview ==
  /\ now = Noon
  /\ value \in InitialTitles
  /\ matches = <<>>
  /\ filtered = <<>>
  /\ tokens = <<>>
  /\ event = <<>>
  /\ cleanTitle = <<>>
  /\ form = OpenedForm
  /\ attachment = [NoEditor EXCEPT
                     !.doc = <<[id |-> 1, page |-> TRUE, save |-> TRUE]>>,
                     !.mounts = 1]
  /\ overlay = Null
  /\ lastIndex = ScanEnded
  /\ inputs = 0
  /\ input = [op |-> "open"]
  /\ origin = Null

SpecPreview == InitPreview /\ [][NextPreview]_vars

(***************************************************************************)
(* The position-tracking loop of an overlay: the browser runs requested    *)
(* animation frames, and pause, resume and destroy are called in any order *)
(***************************************************************************)
\* the number of animation frames requested in a behaviour
MaxFrames == 30

loopVars ==
  <<value, now, matches, filtered, tokens, event, cleanTitle, form,
    attachment, lastIndex, inputs, origin>>

\* the browser runs a requested animation-frame callback
Tick ==
  /\ overlay.frames < MaxFrames
  /\ \E id \in overlay.pending :
       /\ overlay' = tick(overlay, id)
       /\ input' = [op |-> "tick", updated |-> tickUpdates(overlay)]
  /\ UNCHANGED loopVars

\* visibilitychange to hidden: manager.pause() calls overlay.pause()
Pause ==
  /\ overlay' = overlayPause(overlay)
  /\ input' = [op |-> "pause"]
  /\ UNCHANGED loopVars

\* visibilitychange to visible, or a resume() on the overlay itself
Resume ==
  /\ overlay.frames < MaxFrames
  /\ overlay' = overlayResume(overlay)
  /\ input' = [op |-> "resume"]
  /\ UNCHANGED loopVars

\* overlay.destroy(), as detachFromTitleInput calls it
DestroyLoop ==
  /\ overlay' = overlayDestroy(overlay)
  /\ input' = [op |-> "destroy"]
  /\ UNCHANGED loopVars

NextLoop == Tick \/ Pause \/ Resume \/ DestroyLoop

SpecLoop == Init /\ [][NextLoop]_vars

(***************************************************************************)
(* Properties of the parse shown for the title (specification Spec)        *)
(***************************************************************************)
DateTokens == {k \in DOMAIN tokens : tokens[k].type = "date"}

\* the anchor of the last parse: the rightmost surviving candidate
Anchor == filtered[Len(filtered)]

\* C1: the tokens are a lossless partition of the title: the first starts at
\* offset 0, each starts where the previous one ends, the last ends at the
\* length of the title, every raw is the slice [start, end) of the title, and
\* the raws concatenated in order give the title back
TokensPartitionInput ==
  /\ (tokens = <<>>) <=> (value = <<>>)
  /\ tokens # <<>> => tokens[1].start = 0 /\ tokens[Len(tokens)].end = Len(value)
  /\ \A k \in 1..(Len(tokens) - 1) : tokens[k + 1].start = tokens[k].end
  /\ \A k \in DOMAIN tokens :
       /\ tokens[k].start <= tokens[k].end
       /\ tokens[k].raw = Slice(value, tokens[k].start, tokens[k].end)
  /\ Flat([k \in DOMAIN tokens |-> tokens[k].raw]) = value

\* C1 happens: a typed title is split in three tokens
ThreeTokensTyped == input.op = "type" /\ Len(tokens) = 3

LongestAtSameStart ==
  /\ \A k \in DOMAIN filtered : \A c \in DOMAIN matches :
       matches[c].start = filtered[k].start => matches[c].end <= filtered[k].end
  /\ value = ExLongest =>
       /\ \E d \in DateTokens :
            tokens[d].raw = <<"j","a","n"," ","2","7"," ","2","0","2","5">>
       /\ event = [date |-> [y |-> 2025, m |-> 1, d |-> 27, h |-> 0]]

\* C3 happens: two accepted candidates of different lengths share a start,
\* and a candidate with that start survives
SameStartCandidates ==
  \E a \in DOMAIN matches, b \in DOMAIN matches, k \in DOMAIN filtered :
    /\ matches[a].start = matches[b].start
    /\ matches[a].end < matches[b].end
    /\ filtered[k].start = matches[a].start

TextBefore(text, m) == Trim(Slice(text, 0, m.start))

TextAfter(text, m) == Trim(Slice(text, m.end, Len(text)))

\* raw occurs in before + ' ' + after across the joining space
AcrossJoin(before, after, raw) ==
  /\ before # <<>> /\ after # <<>>
  /\ \E i \in 0..Len(before) :
       /\ Len(before) < i + Len(raw)
       /\ Slice(before \o <<" ">> \o after, i, i + Len(raw)) = raw

OriginAnchor == origin.filtered[Len(origin.filtered)]

\* the offset of the joining space in the committed title
JoinOffset == Len(TextBefore(origin.value, OriginAnchor))

\* the leading whitespace the commit trimmed away
LeadingSpace == Len(origin.value) - Len(TrimLeft(origin.value))

\* the date token d of the committed title covers the joining space
CoversJoin(d) ==
  /\ JoinOffset > 0
  /\ TextAfter(origin.value, OriginAnchor) # <<>>
  /\ tokens[d].start <= JoinOffset
  /\ JoinOffset < tokens[d].end

\* the date token d of the committed title is a survivor of the replaced
\* title that stood before its anchor
EarlierSurvivor(d) ==
  \E k \in 1..(Len(origin.filtered) - 1) :
    /\ tokens[d].raw = origin.filtered[k].raw
    /\ tokens[d].start + LeadingSpace = origin.filtered[k].start
    /\ tokens[d].end <= JoinOffset

TextParts ==
  SelectSeq([k \in DOMAIN tokens |->
               IF tokens[k].type = "text" THEN Trim(tokens[k].raw) ELSE <<>>],
            LAMBDA s : s # <<>>)

\* C7: the clean title is the text tokens' contents, trimmed, the empty ones
\* skipped, joined by one space, so it has no whitespace at either end and no
\* doubled whitespace at the join; 'Team standup tomorrow' and 'tomorrow Team
\* standup' give 'Team standup', 'Meeting jan 27 with John' gives 'Meeting
\* with John'
CleanTitleIsJoinedText ==
  /\ Len(TextParts) <= 2
  /\ Len(TextParts) = 0 => cleanTitle = <<>>
  /\ Len(TextParts) = 1 => cleanTitle = TextParts[1]
  /\ Len(TextParts) = 2 =>
       /\ cleanTitle = TextParts[1] \o <<" ">> \o TextParts[2]
       /\ ~IsSpace(CharAt(cleanTitle, Len(TextParts[1]) - 1))
       /\ ~IsSpace(CharAt(cleanTitle, Len(TextParts[1]) + 1))
  /\ cleanTitle # <<>> =>
       ~IsSpace(cleanTitle[1]) /\ ~IsSpace(cleanTitle[Len(cleanTitle)])
  /\ value \in {ExEnd, ExStart} =>
       cleanTitle = <<"T","e","a","m"," ","s","t","a","n","d","u","p">>
  /\ value = ExMiddle =>
       cleanTitle = <<"M","e","e","t","i","n","g"," ","w","i","t","h"," ",
                      "J","o","h","n">>

\* C7 happens: a date in the middle of the title is removed and the two sides
\* are joined
DateRemovedFromMiddle ==
  /\ Len(tokens) = 3
  /\ Len(TextParts) = 2
  /\ IsSpace(tokens[1].raw[Len(tokens[1].raw)])
  /\ IsSpace(tokens[3].raw[1])

\* whitespace normalization: every run of whitespace becomes one space
RECURSIVE CollapseSpaces(_)
CollapseSpaces(s) ==
  IF s = <<>> THEN <<>>
  ELSE IF IsSpace(Head(s))
    THEN <<" ">> \o CollapseSpaces(TrimLeft(s))
    ELSE <<Head(s)>> \o CollapseSpaces(Tail(s))

\* C8: without accepted candidate the event is empty and the clean title is
\* the title trimmed and with its whitespace normalized
NoCandidateNormalizedTitle ==
  matches = <<>> =>
    /\ event = <<>>
    /\ cleanTitle = CollapseSpaces(Trim(value))

\* C8 happens: a title without accepted candidate holds a run of two spaces
NoCandidateDoubleSpace ==
  /\ matches = <<>>
  /\ \E i \in 1..(Len(Trim(value)) - 1) :
       IsSpace(Trim(value)[i]) /\ IsSpace(Trim(value)[i + 1])
(***************************************************************************)
(* Properties of the slash dates (specification SpecSlash)                 *)
(***************************************************************************)
\* C9: for the title 'Meeting a/b/y', a in 13..31 with b in 1..12 gives day a
\* of month b; a > 12 with b > 12, b < 1 or a > 31 gives no match; and a day
\* outside 1..31 or a month outside 1..12 gives no match
SlashSwapResolves ==
  input.op = "slash" =>
    /\ input.a \in 13..31 /\ input.b \in 1..12 =>
         event = [date |-> [y |-> input.y, m |-> input.b, d |-> input.a, h |-> 0]]
    /\ input.a > 12 /\ (input.b > 12 \/ input.b < 1 \/ input.a > 31) =>
         matches = <<>>
    /\ input.a <= 12 /\ ~(input.a \in 1..12 /\ input.b \in 1..31) =>
         matches = <<>>

\* day d exists in month m of year y
DayExists(y, m, d) == NewDate(y, m, d).m = m

\* C9 holds where the swapped day exists in its month: the other cases are
\* the dates that new Date() rolls into the next month
SlashSwapResolvesExistingDays ==
  input.op = "slash" =>
    /\ input.a \in 13..31 /\ input.b \in 1..12
         /\ DayExists(input.y, input.b, input.a) =>
         event = [date |-> [y |-> input.y, m |-> input.b, d |-> input.a, h |-> 0]]
    /\ input.a > 12 /\ (input.b > 12 \/ input.b < 1 \/ input.a > 31) =>
         matches = <<>>
    /\ input.a <= 12 /\ ~(input.a \in 1..12 /\ input.b \in 1..31) =>
         matches = <<>>

\* C9 happens: a swapped slash date names a day its month does not have
SwappedDayMissingInMonth ==
  /\ input.op = "slash"
  /\ input.a \in 13..31 /\ input.b \in 1..12
  /\ ~DayExists(input.y, input.b, input.a)
  /\ event # <<>>

(***************************************************************************)
(* Properties of the 2-digit-year test (specification SpecCentury)         *)
(***************************************************************************)
\* C10: the test's title, built from the reference year modulo 100, parses to
\* a date in the reference year
TwoDigitYearIsReferenceYear ==
  input.op = "test" => event # <<>> /\ event.date.y = now.y

\* C10 holds where the reference year modulo 100 has two digits
TwoDigitYearFromTen ==
  input.op = "test" /\ now.y % 100 >= 10 =>
    event = [date |-> [y |-> now.y, m |-> 1, d |-> 15, h |-> 0]]

\* C10 happens: the year is written with one digit, and the date found is in
\* another year than the reference year
OneDigitYearOtherYear ==
  /\ input.op = "test"
  /\ now.y % 100 < 10
  /\ event # <<>> /\ event.date.y # now.y
(***************************************************************************)
(* Properties of weekday names (specification SpecWeekday)                 *)
(***************************************************************************)
\* the whole days from the reference day to the resolved day
WeekdayOffset == DayNumber(event.date) - DayNumber(now)

\* C11: a weekday name resolves to the nearest occurrence of that weekday on
\* or after the reference date: with t the named weekday and c the
\* reference's weekday (0 = Sunday), the resolved day is (t - c) mod 7 days
\* after the reference day, an offset in 0..6 that is 0 exactly when t = c,
\* and the resolved date falls on weekday t.
WeekdayOnOrAfterToday ==
  input.op = "weekday" =>
    /\ "date" \in DOMAIN event
    /\ WeekdayOffset = (input.t - GetDay(now)) % 7
    /\ WeekdayOffset \in 0..6
    /\ (WeekdayOffset = 0) <=> (input.t = GetDay(now))
    /\ GetDay(event.date) = input.t

\* today's own weekday was typed in the last hour of a month's last day
WeekdayTodayTyped ==
  /\ input.op = "weekday"
  /\ input.t = GetDay(now)
  /\ now.h = 23
  /\ addDays(now, 1).m # now.m
  /\ DayNumber(event.date) = DayNumber(now)

(***************************************************************************)
(* Properties of clock-time suffixes (specification SpecClock)             *)
(***************************************************************************)
\* C12: a month name and a day whose day number is followed, after optional
\* whitespace, by 'am', 'pm' or a colon and a digit produce no match, neither
\* for the day number nor for a shorter prefix of it: the title has no date
\* token and no event date and its clean title is the title unchanged, as
\* for 'Meeting jan 12:00'.
ClockSuffixIsNoDate ==
  (input.op = "suffix" /\ input.clock) =>
    /\ matches = <<>>
    /\ DateTokens = {}
    /\ event = <<>>
    /\ cleanTitle = value

\* '12th', two spaces and a clock suffix were typed, with a year after them
OrdinalDayBeforeClock ==
  /\ input.op = "suffix"
  /\ input.clock
  /\ input.day = <<"1","2","t","h">>
  /\ input.gap = <<" "," ">>
  /\ input.tail # <<>>
  /\ Len(tokens) = 1
  /\ tokens[1].type = "text"

(***************************************************************************)
(* Properties of day and month validation (specification SpecRange)        *)
(***************************************************************************)
InRange(day, month) == day \in 1..31 /\ month \in 1..12

\* the typed numbers are a day and a month in range, as typed or, where the
\* recognizer may swap them, swapped
TypedInRange ==
  CASE input.op \in {"iso", "named"} -> InRange(input.d, input.m)
    [] input.op = "short" -> InRange(input.a, input.b) \/ InRange(input.b, input.a)
    [] OTHER -> TRUE

\* C13: no accepted candidate has a day outside 1..31 or a month outside
\* 1..12: a typed date whose day or month is out of range (for the short
\* slash form, in both orders) is rejected and discarded before overlap
\* resolution, so the title has no candidate, no date token and no event
\* date, as for 'Meeting jan 32'; an ISO date is never swapped, so
\* 'Meeting 2025-13-01' has no date either.
OutOfRangeIsRejected ==
  ~TypedInRange =>
    /\ matches = <<>>
    /\ filtered = <<>>
    /\ DateTokens = {}
    /\ event = <<>>

\* 'Meeting 2025-13-01' was typed and nothing was accepted
IsoMonthThirteenRejected ==
  /\ input.op = "iso"
  /\ input.m = 13
  /\ input.d = 1
  /\ matches = <<>>
  /\ cleanTitle = value

\* C14: a typed date whose day does not exist in its month (30 or 31
\* February, day 31 of a 30-day month, 29 February of a non-leap year)
\* produces no candidate: every accepted candidate's resolved date has
\* exactly the month and the day of month that the text specified.
AcceptedDateIsTypedDate ==
  input.op \in {"iso", "named"} =>
    \A k \in DOMAIN matches :
      matches[k].date.m = input.m /\ matches[k].date.d = input.d

\* 'Meeting 2025-2-30' was typed and accepted as 2 March 2025
IsoFebruaryThirtyIsMarch ==
  /\ input = [op |-> "iso", y |-> 2025, m |-> 2, d |-> 30]
  /\ Len(matches) = 1
  /\ matches[1].date = [y |-> 2025, m |-> 3, d |-> 2, h |-> 0]
  /\ event = [date |-> matches[1].date]

(***************************************************************************)
(* Properties of the certainty flags (specification SpecTimes)             *)
(***************************************************************************)
\* C15: the certainty flags of event.start reflect what the text specified:
\* hasDate is true exactly when the title named a calendar date and hasTime
\* exactly when it named a clock time, so 'Meeting tomorrow', 'Meeting
\* monday' and 'Meeting jan 27' give hasDate and not hasTime, 'Meeting at
\* 3pm' gives hasTime and not hasDate, 'Meeting tomorrow at 3pm' gives both
\* with hour 15, and at least one flag is true whenever start exists.
StartFlagsReflectText ==
  input.op = "flags" =>
    /\ HasStart(event)
    /\ event.start.hasDate = input.hasDate
    /\ event.start.hasTime = input.hasTime
    /\ input.hasTime => event.start.date.h = input.hour
    /\ event.start.hasDate \/ event.start.hasTime

\* 'tomorrow' was recognized in a title of the tests, and the event carries
\* the resolved date but no start
DateParsedWithoutStart ==
  /\ input.op = "flags"
  /\ input.hasDate
  /\ DateTokens # {}
  /\ ~HasStart(event)
  /\ event.date = addDays(now, 1)

(***************************************************************************)
(* Properties of the form-filling layer (specification SpecForm)           *)
(***************************************************************************)
\* C16: form filling is gated by the certainty flags: a title input event
\* changes the start date field only if start.hasDate is true, the end date
\* field only if end.hasDate is true, the start time field only if
\* start.hasTime is true and the end time field only if end.hasTime is true;
\* a field whose flag is false is never overwritten.
FieldsGatedByFlags ==
  [][ /\ form'.startDate # form.startDate =>
           HasStart(event') /\ event'.start.hasDate
      /\ form'.endDate # form.endDate =>
           HasEnd(event') /\ event'.end.hasDate
      /\ form'.startTime # form.startTime =>
           HasStart(event') /\ event'.start.hasTime
      /\ form'.endTime # form.endTime =>
           HasEnd(event') /\ event'.end.hasTime ]_vars

\* a start with a time and no date was applied to the opened editor: the
\* start time is written and the start date is the one the editor opened with
TimeOnlyStartApplied ==
  /\ inputs = 1
  /\ HasStart(event)
  /\ event.start.hasTime
  /\ ~event.start.hasDate
  /\ form.startTime = toTimeString(event.start.date)
  /\ form.startTime # OpenedForm.startTime
  /\ form.startDate = OpenedForm.startDate

\* the form without the record of the synthetic events
FormFields(f) == [f EXCEPT !.sent = <<>>]

\* C17: when the parsed title has no event.start, a title input event leaves
\* every editor field (start and end date, start and end time, all-day
\* checkbox) unchanged and dispatches no synthetic event to the editor; only
\* the overlay tokens and the stored clean title are updated.
NoStartLeavesEditorAlone ==
  [][ (input'.op = "parsed" /\ ~HasStart(event')) =>
        /\ FormFields(form') = FormFields(form)
        /\ form'.sent = <<>>
        /\ cleanTitle' = buildCleanTitle(tokens') ]_vars

\* after the form was filled from one title, a title without event.start was
\* processed: the filled form is still there and nothing was dispatched
FilledFormKeptWithoutStart ==
  /\ inputs = 2
  /\ input.op = "parsed"
  /\ ~HasStart(event)
  /\ form.sent = <<>>
  /\ form.startDate # OpenedForm.startDate
  /\ form.allDay # OpenedForm.allDay

(***************************************************************************)
(* Properties of the commit (specification Spec)                           *)
(***************************************************************************)
\* C18: the title input's text is replaced by the clean title only at a
\* commit (a click on Save or an Enter keydown): after a title input event of
\* live typing the value is the text the user typed or pasted, and a step
\* that changes the value otherwise is a commit that makes it the stored
\* clean title.
TitleReplacedOnlyAtCommit ==
  [][ /\ input'.op = "type" => \E w \in Lexemes : value' = value \o w
      /\ input'.op = "paste" => value' \in Examples
      /\ (input'.op \notin {"type", "paste"} /\ value' # value) =>
           input'.op = "commit" /\ value' = cleanTitle ]_vars

\* a date was typed after the title: the overlay shows it as a date token
\* and the value still holds it
TypedDateStillInValue ==
  /\ input.op = "type"
  /\ Len(tokens) = 2
  /\ tokens[2].type = "date"
  /\ cleanTitle # <<>>
  /\ value # cleanTitle
  /\ Includes(value, tokens[2].raw)

\* C19: when the user saves (Save click or Enter) after typing a title that
\* contains a detected date expression, the title input's value after the
\* commit is the clean title of the typed text, for every such text.
CommitLeavesCleanTitle ==
  (input.op = "commit" /\ ~input.again
     /\ parse(input.typed, now).filtered # <<>>) =>
    value = parse(input.typed, now).cleanTitle

\* a title that is nothing but a date was committed: the value is still the
\* date, and the clean title is empty
DateOnlyTitleKept ==
  /\ input.op = "commit"
  /\ ~input.again
  /\ Len(tokens) = 1
  /\ tokens[1].type = "date"
  /\ cleanTitle = <<>>
  /\ value = input.typed
  /\ value = tokens[1].raw

\* C29: a commit changes only the title: the stored clean title and the
\* editor's fields and checkbox stay as the last typed text left them, and a
\* commit that follows a commit without typing in between changes nothing.
CommitChangesOnlyTitle ==
  [][ input'.op = "commit" =>
        /\ cleanTitle' = cleanTitle
        /\ FormFields(form') = FormFields(form)
        /\ input.op = "commit" => value' = value ]_vars

\* 'tomorrow Team standup tomorrow' was committed twice: the first commit
\* left 'tomorrow Team standup', the second one replaced it by 'Team standup'
SecondCommitReplacedTitle ==
  /\ input.op = "commit"
  /\ input.again
  /\ input.typed = ExStart \o <<" ">> \o <<"t","o","m","o","r","r","o","w">>
  /\ origin # Null
  /\ origin.value = ExStart
  /\ value = SubSeq(ExStart, 10, Len(ExStart))
  /\ value # origin.value

(***************************************************************************)
(* Properties of the attachment (specification SpecAttach)                 *)
(***************************************************************************)
RECURSIVE SumOf(_, _)
SumOf(f, S) ==
  IF S = {} THEN 0
  ELSE f[CHOOSE e \in S : TRUE] + SumOf(f, S \ {CHOOSE e \in S : TRUE})

\* the Save-click listeners of the extension on the Save buttons of the
\* document
SaveClickListeners ==
  SumOf(attachment.saveListeners,
        {attachment.doc[k].id : k \in {j \in DOMAIN attachment.doc : attachment.doc[j].save}})

\* C20: no double attachment: after any sequence of editor-mounted and
\* editor-removed mutations (the same input detected repeatedly, a second
\* title input appearing while the first is attached) at most one title
\* input carries the attached marker, that input has exactly one input
\* listener and one keydown listener of the extension, at most one
\* Save-click listener of the extension is installed, at most one overlay is
\* alive, and an overlay is alive exactly when currentTitleInput is non-null.
NoDoubleAttachment ==
  /\ Cardinality(attachment.marked) <= 1
  /\ \A e \in attachment.marked :
       /\ attachment.inputListeners[e] = 1
       /\ attachment.keydownListeners[e] = 1
  /\ SaveClickListeners <= 1
  /\ attachment.overlays <= 1
  /\ (attachment.overlays = 1) <=> (attachment.currentTitleInput # 0)

\* the attached title input's Save button carries two Save-click listeners
TwoSaveClickListeners ==
  /\ attachment.currentTitleInput # 0
  /\ attachment.marked = {attachment.currentTitleInput}
  /\ attachment.saveButtonHandler = attachment.currentTitleInput
  /\ attachment.saveListeners[attachment.currentTitleInput] = 2
  /\ SaveClickListeners = 2

(***************************************************************************)
(* Properties of the toggle button (specification SpecToggle)              *)
(***************************************************************************)
\* C21: while the overlay is toggled off, a title input event does not
\* change the editor's date and time fields or its all-day checkbox, and a
\* commit does not replace the title with the clean title.
ToggledOffLeavesTitleAndEditor ==
  [][ (overlay.isDisabled /\ overlay'.isDisabled) =>
        /\ FormFields(form') = FormFields(form)
        /\ input'.op = "commit" => value' = value ]_vars

\* smart add was turned off, a title with a date was pasted and committed:
\* the title input holds the clean title instead of the pasted text
ToggledOffTitleReplaced ==
  /\ overlay.isDisabled
  /\ overlay.opacity = 0
  /\ input.op = "commit"
  /\ ~input.again
  /\ value # input.typed
  /\ value = parse(input.typed, now).cleanTitle

(***************************************************************************)
(* Properties of a reused parser (specification SpecReuse)                 *)
(***************************************************************************)
\* what a parser that was never used before returns for each title
FirstCalls == [e \in ReuseTexts |-> parse(e, Noon)]

\* the step ends with the overlay and the clean title of `first`
ShownIs(first) ==
  /\ tokens' = first.tokens
  /\ event' = first.event
  /\ cleanTitle' = first.cleanTitle
  /\ filtered' = first.filtered

\* C22: the parser keeps no state between calls.  Whatever titles were parsed
\* before, every scan of a call starts at position 0, the call returns the
\* tokens, event and clean title that a first call on the same text returns,
\* and it leaves no scan position behind in any shared pattern.
ParseIsStateless ==
  [][ input'.op = "replace" =>
        /\ \A p \in DOMAIN DATE_PATTERNS : input'.started[p] = 0
        /\ lastIndex' = ScanEnded
        /\ ShownIs(FirstCalls[value']) ]_vars

\* a title with an ISO date at offset 0 was parsed right after a title whose
\* ISO scan went past a rejected and an accepted candidate
LeadingDateFoundAfterLongerScan ==
  /\ input.op = "replace"
  /\ input.before = ExRejected
  /\ value = ExLeading
  /\ Len(tokens) = 2
  /\ tokens[1] = [type |-> "date", raw |-> SubSeq(ExLeading, 1, 10),
                  start |-> 0, end |-> 10]
  /\ lastIndex = ScanEnded

Overlap(a, b) == a.start < b.end /\ b.start < a.end

\* C24: for every list of candidates the kept spans are in order of start
\* offset, each starts at or after the end of the one kept before it, every
\* kept span is an accepted candidate, and every accepted candidate that was
\* dropped overlaps a kept one.
KeptSpansOrderedDisjointMaximal ==
  input.op = "resolve" =>
    /\ \A k \in 1..(Len(filtered) - 1) :
         /\ filtered[k].start <= filtered[k + 1].start
         /\ filtered[k].end <= filtered[k + 1].start
    /\ \A k \in DOMAIN filtered :
         /\ filtered[k].date # Null
         /\ \E j \in DOMAIN input.candidates : input.candidates[j] = filtered[k]
    /\ \A j \in DOMAIN input.candidates :
         input.candidates[j].date # Null =>
           \E k \in DOMAIN filtered :
             \/ filtered[k] = input.candidates[j]
             \/ Overlap(filtered[k], input.candidates[j])

\* three candidates found out of order: a rejected one that covers the other
\* two, which touch and are both kept, the earlier one first
TouchingSpansKeptDespiteRejected ==
  /\ input.op = "resolve"
  /\ Len(input.candidates) = 3
  /\ input.candidates[1].date = Null
  /\ input.candidates[1].start = 0
  /\ input.candidates[1].end = 3
  /\ input.candidates[2].start = 1
  /\ input.candidates[3].start = 0
  /\ Len(filtered) = 2
  /\ filtered[1].end = filtered[2].start

(***************************************************************************)
(* Properties of the year expansion (specification SpecYears)              *)
(***************************************************************************)
\* the first year of the century of a year
CenturyOf(year) == (year \div 100) * 100

\* `year` is one of the two candidates for the written year y, none of them
\* is closer to the current year c, and the current century wins a tie
ClosestOfTwoCenturies(year, y, c) ==
  /\ year \in {CenturyOf(c) + y, CenturyOf(c) - 100 + y}
  /\ Abs(year - c) <= Abs(CenturyOf(c) + y - c)
  /\ Abs(year - c) <= Abs(CenturyOf(c) - 100 + y - c)
  /\ Abs(CenturyOf(c) + y - c) = Abs(CenturyOf(c) - 100 + y - c) =>
       year = CenturyOf(c) + y

\* C25: a written year below 100 resolves to the candidate of the current or
\* of the previous century that is closest to the current year, a tie going
\* to the current century; the result ends in the written digits and never
\* lies in the century after the current one; a written year of 100 or more
\* is the year of the date as written.
TwoDigitYearClosestCentury ==
  input.op = "year" =>
    /\ "date" \in DOMAIN event
    /\ input.y >= 100 => event.date.y = input.y
    /\ input.y < 100 =>
         /\ ClosestOfTwoCenturies(event.date.y, input.y, now.y)
         /\ event.date.y % 100 = input.y
         /\ event.date.y < CenturyOf(now.y) + 100

\* in 2025 the written year 75 is as far in the future as in the past: the
\* date is in 2075
TieGoesToCurrentCentury ==
  /\ input.op = "year"
  /\ now.y = 2025
  /\ input.y = 75
  /\ event.date = [y |-> 2075, m |-> 1, d |-> 15, h |-> 0]

(***************************************************************************)
(* Properties of the year completion (specification SpecNearest)           *)
(***************************************************************************)
\* the distance in time between the day/month of year `year` and now
DistanceIn(year) ==
  Abs(GetTime(NewDate(year, input.month, input.day)) - GetTime(now))

\* no year from the one before to the one after now is closer than `year`
Nearest(year) == \A other \in (now.y - 1)..(now.y + 1) :
                   DistanceIn(year) <= DistanceIn(other)

\* C26: a day/month pair without a year resolves to its date in the previous,
\* the current or the next year, whichever is closest in time to the
\* reference instant; when the current year is among the closest it is
\* chosen, and otherwise the next year when it is among the closest.
NearestYearChosen ==
  input.op = "daymonth" =>
    /\ "date" \in DOMAIN event
    /\ \E year \in (now.y - 1)..(now.y + 1) :
         /\ event.date = NewDate(year, input.month, input.day)
         /\ Nearest(year)
    /\ Nearest(now.y) => event.date = NewDate(now.y, input.month, input.day)
    /\ (Nearest(now.y + 1) /\ ~Nearest(now.y)) =>
         event.date = NewDate(now.y + 1, input.month, input.day)

\* at noon of 2 July 2025 the first of January is as far behind as ahead:
\* the date is in 2025
HalfYearTieIsCurrentYear ==
  /\ input.op = "daymonth"
  /\ now = [y |-> 2025, m |-> 7, d |-> 2, h |-> 12]
  /\ input.day = 1
  /\ input.month = 1
  /\ DistanceIn(2025) = DistanceIn(2026)
  /\ event.date = [y |-> 2025, m |-> 1, d |-> 1, h |-> 0]

(***************************************************************************)
(* Properties of the default end (specification SpecForm)                  *)
(***************************************************************************)
\* the end processText made for a parsed start that came without an end
EndMadeFor(start) ==
  /\ start.hasTime =>
       /\ HasEnd(event)
       /\ GetTime(event.end.date) = GetTime(start.date) + 1
       /\ event.end.hasTime
       /\ event.end.hasDate = start.hasDate
  /\ (~start.hasTime /\ start.hasDate) =>
       /\ HasEnd(event)
       /\ event.end = [date |-> start.date, hasTime |-> FALSE, hasDate |-> TRUE]
  /\ (~start.hasTime /\ ~start.hasDate) => ~HasEnd(event)
  /\ HasEnd(event) => (event.end.hasTime \/ event.end.hasDate)

\* C27: an end is made only for a parsed event that has a start and no end.
\* For a start with a time it is one hour after the start, with a time, and
\* with a date exactly when the start has one; for a start with a date only
\* it is the start's instant, with a date and no time; for a start with
\* neither none is made.  A parsed end and an event without start are left
\* as they are, and an end that was made has at least one flag set.
DefaultEndPolicy ==
  input.op = "parsed" =>
    /\ (~HasStart(input.parsed) \/ HasEnd(input.parsed)) => event = input.parsed
    /\ (HasStart(input.parsed) /\ ~HasEnd(input.parsed)) =>
         /\ event.start = input.parsed.start
         /\ EndMadeFor(input.parsed.start)

\* a start at 11 PM of 31 December with a time and no date: the end made is
\* at midnight of 1 January, with a time and no date
TimedEndCrossesYear ==
  /\ input.op = "parsed"
  /\ ~HasEnd(input.parsed)
  /\ HasStart(input.parsed)
  /\ input.parsed.start =
       [date |-> [y |-> 2025, m |-> 12, d |-> 31, h |-> 23],
        hasTime |-> TRUE, hasDate |-> FALSE]
  /\ event.end = [date |-> [y |-> 2026, m |-> 1, d |-> 1, h |-> 0],
                  hasTime |-> TRUE, hasDate |-> FALSE]

(***************************************************************************)
(* Properties of the attach step (specification SpecPreview)               *)
(***************************************************************************)
\* C28: attaching to a title input that already holds text shows its tokens
\* in the overlay and stores its clean title, and changes neither the title,
\* nor an editor field, nor the all-day checkbox, and dispatches no synthetic
\* event; the editor's form changes only in a later title input event.
AttachOnlyPreviews ==
  [][ /\ input'.op = "attached" =>
           /\ value' = value
           /\ tokens' = InitialResults[value].tokens
           /\ cleanTitle' = InitialResults[value].cleanTitle
           /\ FormFields(form') = FormFields(form)
           /\ form'.sent = <<>>
      /\ FormFields(form') # FormFields(form) => input'.op = "parsed" ]_vars

\* attached to 'Team standup tomorrow' with a parsed start that has a date
\* and a time: the overlay shows the date token, the editor is as it opened
DatedTitleOnlyShown ==
  /\ input.op = "attached"
  /\ value = ExEnd
  /\ HasStart(input.parsed)
  /\ input.parsed.start.hasDate
  /\ input.parsed.start.hasTime
  /\ \E k \in DOMAIN tokens : tokens[k].type = "date"
  /\ cleanTitle # <<>>
  /\ form = OpenedForm
  /\ attachment = OneEditor

(***************************************************************************)
(* Properties of the position-tracking loop (specification SpecLoop)       *)
(***************************************************************************)
\* C30: whatever the order of pause, resume, destroy and animation frames,
\* the browser holds at most one requested callback of the overlay, and
\* none while the overlay is paused or destroyed; every callback that runs
\* belongs to a running overlay and updates the position; a resume of a
\* paused, live overlay leaves exactly one requested callback; a destroyed
\* overlay requests no frame any more, whatever is called on it.
OneLoopWhileRunning ==
  [][ /\ Cardinality(overlay'.pending) <= 1
      /\ (overlay'.isPaused \/ overlay'.isDestroyed) => overlay'.pending = {}
      /\ input'.op = "tick" =>
           (~overlay.isPaused /\ ~overlay.isDestroyed /\ input'.updated)
      /\ (input'.op = "resume" /\ overlay.isPaused /\ ~overlay.isDestroyed) =>
           /\ ~overlay'.isPaused
           /\ Cardinality(overlay'.pending) = 1
           /\ overlay'.frames = overlay.frames + 1
      /\ overlay.isDestroyed =>
           (overlay'.isDestroyed /\ overlay'.frames = overlay.frames) ]_vars

\* a paused overlay was destroyed and then resumed: nothing is requested
ResumedAfterDestroy ==
  /\ input.op = "resume"
  /\ overlay.isDestroyed
  /\ overlay.isPaused
  /\ overlay.pending = {}
  /\ overlay.rafId = 0
  /\ overlay.frames > 2

====
